---- MODULE Spec2Model ----
(***************************************************************************)
(* A state-machine model of collect_papers.py: the run driver (main), the  *)
(* folder summarizer (summarize_folder), the metadata walk                 *)
(* (extract_metadata_from_folder), the parse gate and the document         *)
(* registry, over a small fixed directory tree.                            *)
(*                                                                         *)
(* Python's None is the string NoneVal; "" is the empty string.  Paths are *)
(* absolute and free of symbolic links, so Path.resolve() leaves them as   *)
(* they are and a path string is its own registry key.                     *)
(***************************************************************************)
EXTENDS Integers, Sequences, FiniteSets, TLC

\* ------------------------------------------------------------------ bounds
MaxPaper == 3      \* largest --paper-max tried
MaxDepthArg == 2   \* largest --max-depth tried
MaxRuns == 2       \* consecutive runs of the program over the same tree

\* ------------------------------------------------------- python primitives
NoneVal == "None"
Truthy(x) == x # NoneVal /\ x # ""
\* python's  a or b
PyOr(a, b) == IF Truthy(a) THEN a ELSE b
\* python's  x or ""
OrEmpty(x) == IF Truthy(x) THEN x ELSE ""
Max(a, b) == IF a >= b THEN a ELSE b

RECURSIVE Flatten(_)
Flatten(ss) == IF ss = << >> THEN << >> ELSE Head(ss) \o Flatten(Tail(ss))

Range(s) == {s[i] : i \in 1..Len(s)}

\* ------------------------------------------------------------------- text
\* A text is a sequence of one-character strings, so that the regular
\* expressions of the source are computed character by character; Str joins
\* the characters of an identifier into the string the program stores.
RECURSIVE Str(_)
Str(cs) ==
  IF cs = << >> THEN ""
  ELSE IF Len(cs) = 1 THEN cs[1]
  ELSE Str(SubSeq(cs, 1, Len(cs) \div 2)) \o Str(SubSeq(cs, Len(cs) \div 2 + 1, Len(cs)))

Digits == Range(<<"0", "1", "2", "3", "4", "5", "6", "7", "8", "9">>)
Letters == Range(<<"A", "B", "C", "D", "E", "F", "G", "H", "I", "J", "K", "L", "M", "N", "O", "P", "Q", "R", "S", "T", "U", "V", "W", "X", "Y", "Z">>) \cup Range(<<"a", "b", "c", "d", "e", "f", "g", "h", "i", "j", "k", "l", "m", "n", "o", "p", "q", "r", "s", "t", "u", "v", "w", "x", "y", "z">>)
WordChars == Letters \cup Digits \cup {"_"}
Spaces == {" ", "\n", "\t", "\r"}

\* a character class: the characters of set, or all but those when neg
Only(S) == [neg |-> FALSE, set |-> S]
AllBut(S) == [neg |-> TRUE, set |-> S]
InClass(c, cls) == (c \in cls.set) # cls.neg

\* [-._;()/:A-Z0-9] under IGNORECASE
DoiChars == Only(Letters \cup Digits \cup {"-", ".", "_", ";", "(", ")", "/", ":"})
\* [^\s)]
UrlChars == AllBut(Spaces \cup {")"})
\* [^\s?#]
DoiPathChars == AllBut(Spaces \cup {"?", "#"})

\* the number of characters of the class from position i on, max at most:
\* the run stops at the first character that is not of the class, at the end
\* of the text or after max characters
Least(S) == CHOOSE k \in S : \A j \in S : k <= j
RunLimit(t, i, max) ==
  IF i > Len(t) THEN 0 ELSE IF Len(t) - i + 1 < max THEN Len(t) - i + 1 ELSE max
RunLen(t, i, cls, max) ==
  Least({k \in 0..RunLimit(t, i, max) :
           k = RunLimit(t, i, max) \/ ~InClass(t[i + k], cls)})

\* a literal stands at position i; under IGNORECASE each of its characters is
\* the set of its lower-case and upper-case forms
MatchLit(t, i, lit) ==
  /\ i + Len(lit) - 1 <= Len(t)
  /\ \A k \in 1..Len(lit) : t[i + k - 1] \in lit[k]

\* \b between positions i-1 and i
WordBoundary(t, i) ==
  (i > 1 /\ i - 1 <= Len(t) /\ t[i - 1] \in WordChars) # (i <= Len(t) /\ t[i] \in WordChars)

\* a match that starts at i: its length (0: no match) and the start and
\* length of the group the code takes (group 0 or group 1)
NoMatch == [len |-> 0, gs |-> 0, gl |-> 0]

\* the match ends with its group, which starts at gs and is n characters long
\* and has to have min to max characters, and a \b after it if asked for
EndsWithGroup(t, i, gs, n, min, max, boundary) ==
  IF n >= min /\ n <= max /\ (boundary => WordBoundary(t, gs + n))
  THEN [len |-> gs + n - i, gs |-> gs, gl |-> n] ELSE NoMatch

\* the same for a group that starts with the three letters PMC, n digits after
EndsWithPmc(t, i, gs, n, boundary) ==
  IF n >= 1 /\ (boundary => WordBoundary(t, gs + 3 + n))
  THEN [len |-> gs + 3 + n - i, gs |-> gs, gl |-> 3 + n] ELSE NoMatch

\* URL_REGEX at position i: https?://[^\s)]+
UrlTail(t, i, p) ==
  IF MatchLit(t, p, <<{":"}, {"/"}, {"/"}>>)
  THEN EndsWithGroup(t, i, i, p + 3 - i + RunLen(t, p + 3, UrlChars, Len(t)),
                     p + 4 - i, Len(t), FALSE)
  ELSE NoMatch
UrlAt(t, i) ==
  IF MatchLit(t, i, <<{"h", "H"}, {"t", "T"}, {"t", "T"}, {"p", "P"}>>)
  THEN UrlTail(t, i, IF MatchLit(t, i + 4, <<{"s", "S"}>>) THEN i + 5 ELSE i + 4)
  ELSE NoMatch

\* DOI_REGEX at position i: 10\.\d{4,9}/[-._;()/:A-Z0-9]+ ; d is the whole
\* run of digits, which alone can be followed by "/"
DoiTail(t, i, d) ==
  IF d >= 4 /\ d <= 9 /\ MatchLit(t, i + 3 + d, <<{"/"}>>)
  THEN EndsWithGroup(t, i, i, 4 + d + RunLen(t, i + 4 + d, DoiChars, Len(t)),
                     5 + d, Len(t), FALSE)
  ELSE NoMatch
DoiAt(t, i) ==
  IF MatchLit(t, i, <<{"1"}, {"0"}, {"."}>>) THEN DoiTail(t, i, RunLen(t, i + 3, Only(Digits), Len(t)))
  ELSE NoMatch

\* \s*:?\s* from position i: the position after it
AfterSpaces(t, i) == i + RunLen(t, i, Only(Spaces), Len(t))
AfterSep(t, i) ==
  AfterSpaces(t, IF MatchLit(t, AfterSpaces(t, i), <<{":"}>>) THEN AfterSpaces(t, i) + 1
                 ELSE AfterSpaces(t, i))

\* PMID_NUM_REGEX at position i: \bPMID\s*:?\s*(\d{4,9})\b ; the group is the
\* whole run of digits, or \b fails
PmidAt(t, i) ==
  IF WordBoundary(t, i) /\ MatchLit(t, i, <<{"p", "P"}, {"m", "M"}, {"i", "I"}, {"d", "D"}>>)
  THEN EndsWithGroup(t, i, AfterSep(t, i + 4),
                     RunLen(t, AfterSep(t, i + 4), Only(Digits), Len(t)), 4, 9, TRUE)
  ELSE NoMatch

\* PMCID_REGEX at position i: \bPMCID?\s*:?\s*(PMC\d+)\b
PmcidGroup(t, i, g) ==
  IF MatchLit(t, g, <<{"p", "P"}, {"m", "M"}, {"c", "C"}>>)
  THEN EndsWithPmc(t, i, g, RunLen(t, g + 3, Only(Digits), Len(t)), TRUE)
  ELSE NoMatch
PmcidAt(t, i) ==
  IF WordBoundary(t, i) /\ MatchLit(t, i, <<{"p", "P"}, {"m", "M"}, {"c", "C"}, {"i", "I"}>>)
  THEN PmcidGroup(t, i, AfterSep(t, IF MatchLit(t, i + 4, <<{"d", "D"}>>) THEN i + 5 ELSE i + 4))
  ELSE NoMatch

\* PUBMED_URL_REGEX at position i: pubmed\.ncbi\.nlm\.nih\.gov/(\d{4,9})
PubmedUrlAt(t, i) ==
  IF MatchLit(t, i, <<{"p", "P"}, {"u", "U"}, {"b", "B"}, {"m", "M"}, {"e", "E"}, {"d", "D"},
    {"."}, {"n", "N"}, {"c", "C"}, {"b", "B"}, {"i", "I"}, {"."}, {"n", "N"},
    {"l", "L"}, {"m", "M"}, {"."}, {"n", "N"}, {"i", "I"}, {"h", "H"}, {"."},
    {"g", "G"}, {"o", "O"}, {"v", "V"}, {"/"}>>)
  THEN EndsWithGroup(t, i, i + 24, RunLen(t, i + 24, Only(Digits), 9), 4, 9, FALSE)
  ELSE NoMatch

\* PMC_URL_REGEX at position i: ncbi\.nlm\.nih\.gov/pmc/articles/(PMC\d+)
PmcUrlAt(t, i) ==
  IF MatchLit(t, i, <<{"n", "N"}, {"c", "C"}, {"b", "B"}, {"i", "I"}, {"."}, {"n", "N"}, {"l",
    "L"}, {"m", "M"}, {"."}, {"n", "N"}, {"i", "I"}, {"h", "H"}, {"."}, {"g",
    "G"}, {"o", "O"}, {"v", "V"}, {"/"}, {"p", "P"}, {"m", "M"}, {"c", "C"},
    {"/"}, {"a", "A"}, {"r", "R"}, {"t", "T"}, {"i", "I"}, {"c", "C"}, {"l",
    "L"}, {"e", "E"}, {"s", "S"}, {"/"}, {"p", "P"}, {"m", "M"}, {"c",
    "C"}>>)
  THEN EndsWithPmc(t, i, i + 30, RunLen(t, i + 33, Only(Digits), Len(t)), FALSE)
  ELSE NoMatch

\* doi\.org/([^\s?#]+) at position i
DoiOrgAt(t, i) ==
  IF MatchLit(t, i, <<{"d", "D"}, {"o", "O"}, {"i", "I"}, {"."}, {"o", "O"}, {"r", "R"}, {"g",
    "G"}, {"/"}>>)
  THEN EndsWithGroup(t, i, i + 8, RunLen(t, i + 8, DoiPathChars, Len(t)), 1, Len(t), FALSE)
  ELSE NoMatch

MatchAt(t, i, re) ==
  CASE re = "URL_REGEX" -> UrlAt(t, i)
    [] re = "DOI_REGEX" -> DoiAt(t, i)
    [] re = "PMID_NUM_REGEX" -> PmidAt(t, i)
    [] re = "PMCID_REGEX" -> PmcidAt(t, i)
    [] re = "PUBMED_URL_REGEX" -> PubmedUrlAt(t, i)
    [] re = "PMC_URL_REGEX" -> PmcUrlAt(t, i)
    [] re = "doi.org" -> DoiOrgAt(t, i)

\* the text of the group of a match
Group(t, m) == SubSeq(t, m.gs, m.gs + m.gl - 1)

\* the matches of the pattern from position i on, each with its start
MatchesFrom(t, i, re) ==
  {x \in {[at |-> j, m |-> MatchAt(t, j, re)] : j \in i..Len(t)} : x.m.len > 0}

\* the leftmost of them, at 0 if there is none
Leftmost(ms) ==
  IF ms = {} THEN [at |-> 0, m |-> NoMatch]
  ELSE CHOOSE x \in ms : \A y \in ms : x.at <= y.at
FirstMatch(t, i, re) == Leftmost(MatchesFrom(t, i, re))

\* re.finditer: the groups of the leftmost non-overlapping matches from i on
RECURSIVE FindIter(_, _, _)
FindAfter(t, x, re) ==
  IF x.at = 0 THEN << >> ELSE <<Group(t, x.m)>> \o FindIter(t, x.at + x.m.len, re)
FindIter(t, i, re) == FindAfter(t, FirstMatch(t, i, re), re)

\* re.search: the group of the leftmost match, << >> standing for no match
\* (a group of these patterns is never empty)
GroupOf(t, x) == IF x.at = 0 THEN << >> ELSE Group(t, x.m)
Search(t, re) == GroupOf(t, FirstMatch(t, 1, re))

\* str.rstrip(chars)
RECURSIVE RStrip(_, _)
RStrip(cs, chars) ==
  IF cs # << >> /\ cs[Len(cs)] \in chars THEN RStrip(SubSeq(cs, 1, Len(cs) - 1), chars)
  ELSE cs

\* str.strip()
RECURSIVE LStrip(_)
LStrip(cs) == IF cs # << >> /\ Head(cs) \in Spaces THEN LStrip(Tail(cs)) ELSE cs
Strip(cs) == RStrip(LStrip(cs), Spaces)

\* ------------------------------------------------- identifier extraction
\* mutant: the "not in seen" test is left out
AppendNew_always(seq, x) == Append(seq, x)

\* "if x not in seen: seen.add(x); list.append(x)": the seen set of a list
\* is the set of its elements
AppendNew(seq, x) == IF x \in Range(seq) THEN seq ELSE Append(seq, x)

\* the same for the group of a match, if there is one
AppendGroup(seq, g) == IF g # << >> THEN AppendNew(seq, Str(g)) ELSE seq

NoIds == [urls |-> << >>, dois |-> << >>, pmids |-> << >>, pmcs |-> << >>]

\* the body of the loop over URL_REGEX.finditer(text) for the URL u
UrlIds(acc, u) ==
  [urls |-> AppendGroup(acc.urls, u),
   dois |-> AppendGroup(acc.dois, Search(u, "doi.org")),
   pmids |-> AppendGroup(acc.pmids, Search(u, "PUBMED_URL_REGEX")),
   pmcs |-> AppendGroup(acc.pmcs, Search(u, "PMC_URL_REGEX"))]

\* u = m.group(0).strip().rstrip(').,;]')
UrlStep(acc, m0) == UrlIds(acc, RStrip(Strip(m0), {")", ".", ",", ";", "]"}))

RECURSIVE UrlLoop(_, _)
UrlLoop(acc, ms) ==
  IF ms = << >> THEN acc ELSE UrlLoop(UrlStep(acc, Head(ms)), Tail(ms))

\* the loops over the bare DOIs, the PMID and the PMCID mentions
RECURSIVE AppendAllNew(_, _)
AppendAllNew(seq, groups) ==
  IF groups = << >> THEN seq
  ELSE AppendAllNew(AppendNew(seq, Str(Head(groups))), Tail(groups))

\* the three loops after the loop over the URLs, which gave a
BareIds(a, text) ==
  [urls |-> a.urls,
   dois |-> AppendAllNew(a.dois, FindIter(text, 1, "DOI_REGEX")),
   pmids |-> AppendAllNew(a.pmids, FindIter(text, 1, "PMID_NUM_REGEX")),
   pmcs |-> AppendAllNew(a.pmcs, FindIter(text, 1, "PMCID_REGEX"))]

extract_identifiers_from_text(text) ==
  BareIds(UrlLoop(NoIds, FindIter(text, 1, "URL_REGEX")), text)

\* find_doi_in_text: the first match of DOI_REGEX, or None
find_doi_in_text(text) ==
  IF Search(text, "DOI_REGEX") = << >> THEN NoneVal ELSE Str(Search(text, "DOI_REGEX"))

\* a dictionary from identifiers to sets of file paths
NoDict == [k \in {} |-> {}]

_add_to_dict_set(d, key, source) ==
  IF ~Truthy(key) THEN d
  ELSE [k \in DOMAIN d \cup {key} |->
          IF k # key THEN d[k]
          ELSE IF key \in DOMAIN d THEN d[key] \cup {source} ELSE {source}]

RECURSIVE AddAll(_, _, _)
AddAll(d, keys, source) ==
  IF keys = << >> THEN d ELSE AddAll(_add_to_dict_set(d, Head(keys), source), Tail(keys), source)

\* URL_DICT, DOI_DICT, PUBMED_ID_DICT and PMC_ID_DICT
NoLinks == [url |-> NoDict, doi |-> NoDict, pmid |-> NoDict, pmc |-> NoDict]

\* the four loops of update_link_dicts_from_text over the extracted identifiers
FoldIds(links, ids, source) ==
  [url |-> AddAll(links.url, ids.urls, source),
   doi |-> AddAll(links.doi, ids.dois, source),
   pmid |-> AddAll(links.pmid, ids.pmids, source),
   pmc |-> AddAll(links.pmc, ids.pmcs, source)]

update_link_dicts_from_text(links, text, source) ==
  FoldIds(links, extract_identifiers_from_text(text), source)

\* ------------------------------------------------------------ DOI records
\* str.strip() of the DOI strings update_doi_record is given: only a padded
\* or blank one changes
StripStr(s) ==
  CASE s = " 10.1000/xyz123 " -> "10.1000/xyz123"
    [] s = " " -> ""
    [] OTHER -> s

NoRecord == [title |-> NoneVal, authors |-> NoneVal, year |-> NoneVal,
             venue |-> NoneVal, sources |-> {}]

\* mutant: a non-empty value replaces the one the record has
Fill_latest(old, new) == IF Truthy(new) THEN new ELSE old

\* "Only fill missing fields to keep the first-found canonical record"
Fill(old, new) == IF Truthy(new) /\ ~Truthy(old) THEN new ELSE old

\* records is DOI_IN_TEXT_DICT
update_doi_record(records, doi, source, title, authors, year, venue) ==
  IF ~Truthy(doi) \/ StripStr(doi) = "" THEN records
  ELSE LET key == StripStr(doi)
           rec == IF key \in DOMAIN records THEN records[key] ELSE NoRecord
           new == [title |-> Fill(rec.title, title),
                   authors |-> Fill(rec.authors, authors),
                   year |-> Fill(rec.year, year),
                   venue |-> Fill(rec.venue, venue),
                   sources |-> rec.sources \cup {source}]
       IN [k \in DOMAIN records \cup {key} |-> IF k = key THEN new ELSE records[k]]

\* mutant: the DOIs of the full-text scan get no record
UpdateOtherDois_none(records, all_dois, doi, source) == records

\* "for d_ in all_dois: if d_ != doi: update_doi_record(d_, path)"
RECURSIVE UpdateOtherDois(_, _, _, _)
UpdateOtherDois(records, all_dois, doi, source) ==
  IF all_dois = << >> THEN records
  ELSE UpdateOtherDois(
         IF Head(all_dois) # doi
         THEN update_doi_record(records, Head(all_dois), source,
                                NoneVal, NoneVal, NoneVal, NoneVal)
         ELSE records,
         Tail(all_dois), doi, source)

\* ------------------------------------------------------- the directory tree
\* /R            (a root)
\*   .h/         h.dat
\*   A/          a.bib  b.ris  p.PDF
\*     S/        c.json n.nbib
\*   B/          d.txt  e.docx x.dat
Dirs == {"/R", "/R/A", "/R/A/S", "/R/B", "/R/.h"}

\* os.scandir / os.walk listing order of a directory's subdirectories
ChildDirs(d) ==
  CASE d = "/R" -> <<"/R/.h", "/R/A", "/R/B">>
    [] d = "/R/A" -> <<"/R/A/S">>
    [] OTHER -> << >>

\* listing order of a directory's files
DirFiles(d) ==
  CASE d = "/R/A" -> <<"/R/A/a.bib", "/R/A/b.ris", "/R/A/p.PDF">>
    [] d = "/R/A/S" -> <<"/R/A/S/c.json", "/R/A/S/n.nbib">>
    [] d = "/R/B" -> <<"/R/B/d.txt", "/R/B/e.docx", "/R/B/x.dat">>
    [] d = "/R/.h" -> <<"/R/.h/h.dat">>
    [] OTHER -> << >>

Files == UNION {Range(DirFiles(d)) : d \in Dirs}

\* the last component of a directory path (Path.name)
DirName(d) ==
  CASE d = "/R" -> "R"
    [] d = "/R/A" -> "A"
    [] d = "/R/A/S" -> "S"
    [] d = "/R/B" -> "B"
    [] d = "/R/.h" -> ".h"
    [] OTHER -> d

\* name.startswith('.')
IsHiddenName(n) == n = ".h"

\* the suffix of a file name as written on disk
Suffix(f) ==
  CASE f = "/R/A/a.bib" -> ".bib"
    [] f = "/R/A/b.ris" -> ".ris"
    [] f = "/R/A/p.PDF" -> ".PDF"
    [] f = "/R/A/S/c.json" -> ".json"
    [] f = "/R/A/S/n.nbib" -> ".nbib"
    [] f = "/R/B/d.txt" -> ".txt"
    [] f = "/R/B/e.docx" -> ".docx"
    [] f = "/R/B/x.dat" -> ".dat"
    [] f = "/R/.h/h.dat" -> ".dat"
    [] OTHER -> ""

\* fname.lower(), on the suffix
Lower(s) == IF s = ".PDF" THEN ".pdf" ELSE s

\* lower.endswith(ext)
EndsWith(f, ext) == Lower(Suffix(f)) = ext

\* st_size of a file
SizeOf(f) == IF EndsWith(f, ".pdf") THEN 2 ELSE 1

\* the directory a file lies in (Path.parent)
ParentOfFile(f) == CHOOSE d \in Dirs : f \in Range(DirFiles(d))

\* the strict descendants of a directory
RECURSIVE Descendants(_)
Descendants(d) ==
  Range(ChildDirs(d)) \cup UNION {Descendants(c) : c \in Range(ChildDirs(d))}

\* the files lying anywhere under a directory
FilesUnder(d) == {f \in Files : ParentOfFile(f) \in ({d} \cup Descendants(d))}

\* the contents tried: in variant "full" a.bib is a complete entry and c.json
\* also carries a DOI
Variants == {"plain", "full"}

\* a.bib:
\*   @article{x, doi={10.1000/xyz123}, title={Foo}, journal={J}, url={http://u/1}}
Text_a_bib_plain ==
  <<"@", "a", "r", "t", "i", "c", "l", "e", "{", "x", ",", " ", "d", "o", "i",
    "=", "{", "1", "0", ".", "1", "0", "0", "0", "/", "x", "y", "z", "1",
    "2", "3", "}", ",", " ", "t", "i", "t", "l", "e", "=", "{", "F", "o",
    "o", "}", ",", " ", "j", "o", "u", "r", "n", "a", "l", "=", "{", "J",
    "}", ",", " ", "u", "r", "l", "=", "{", "h", "t", "t", "p", ":", "/",
    "/", "u", "/", "1", "}", "}">>

\* a.bib, a complete entry:
\*   @article{x, doi={10.1000/xyz123}, title={Foo}, author={A; B}, year={2020}, journal={J}, url={http://u/1}}
Text_a_bib_full ==
  <<"@", "a", "r", "t", "i", "c", "l", "e", "{", "x", ",", " ", "d", "o", "i",
    "=", "{", "1", "0", ".", "1", "0", "0", "0", "/", "x", "y", "z", "1",
    "2", "3", "}", ",", " ", "t", "i", "t", "l", "e", "=", "{", "F", "o",
    "o", "}", ",", " ", "a", "u", "t", "h", "o", "r", "=", "{", "A", ";",
    " ", "B", "}", ",", " ", "y", "e", "a", "r", "=", "{", "2", "0", "2",
    "0", "}", ",", " ", "j", "o", "u", "r", "n", "a", "l", "=", "{", "J",
    "}", ",", " ", "u", "r", "l", "=", "{", "h", "t", "t", "p", ":", "/",
    "/", "u", "/", "1", "}", "}">>

\* b.ris:
\*   DO  - 10.2000/abc\nTI  - Bar\nAU  - Smith, J\nAU  - Doe, A\nPY  - 2019///\nN1  - cites 10.1000/xyz123\n
Text_b_ris ==
  <<"D", "O", " ", " ", "-", " ", "1", "0", ".", "2", "0", "0", "0", "/", "a",
    "b", "c", "\n", "T", "I", " ", " ", "-", " ", "B", "a", "r", "\n", "A",
    "U", " ", " ", "-", " ", "S", "m", "i", "t", "h", ",", " ", "J", "\n",
    "A", "U", " ", " ", "-", " ", "D", "o", "e", ",", " ", "A", "\n", "P",
    "Y", " ", " ", "-", " ", "2", "0", "1", "9", "/", "/", "/", "\n", "N",
    "1", " ", " ", "-", " ", "c", "i", "t", "e", "s", " ", "1", "0", ".",
    "1", "0", "0", "0", "/", "x", "y", "z", "1", "2", "3", "\n">>

\* c.json:
\*   {"title": "Baz", "authors": "K", "year": 2021, "venue": "V", "url": ["http://u/1", "http://u/2"]}
Text_c_json_plain ==
  <<"{", "\"", "t", "i", "t", "l", "e", "\"", ":", " ", "\"", "B", "a", "z",
    "\"", ",", " ", "\"", "a", "u", "t", "h", "o", "r", "s", "\"", ":", " ",
    "\"", "K", "\"", ",", " ", "\"", "y", "e", "a", "r", "\"", ":", " ", "2",
    "0", "2", "1", ",", " ", "\"", "v", "e", "n", "u", "e", "\"", ":", " ",
    "\"", "V", "\"", ",", " ", "\"", "u", "r", "l", "\"", ":", " ", "[",
    "\"", "h", "t", "t", "p", ":", "/", "/", "u", "/", "1", "\"", ",", " ",
    "\"", "h", "t", "t", "p", ":", "/", "/", "u", "/", "2", "\"", "]", "}">>

\* c.json, with a DOI:
\*   {"doi": "10.5000/c", "title": "Baz", "authors": "K", "year": 2021, "venue": "V", "url": ["http://u/1", "http://u/2"]}
Text_c_json_full ==
  <<"{", "\"", "d", "o", "i", "\"", ":", " ", "\"", "1", "0", ".", "5", "0",
    "0", "0", "/", "c", "\"", ",", " ", "\"", "t", "i", "t", "l", "e", "\"",
    ":", " ", "\"", "B", "a", "z", "\"", ",", " ", "\"", "a", "u", "t", "h",
    "o", "r", "s", "\"", ":", " ", "\"", "K", "\"", ",", " ", "\"", "y", "e",
    "a", "r", "\"", ":", " ", "2", "0", "2", "1", ",", " ", "\"", "v", "e",
    "n", "u", "e", "\"", ":", " ", "\"", "V", "\"", ",", " ", "\"", "u", "r",
    "l", "\"", ":", " ", "[", "\"", "h", "t", "t", "p", ":", "/", "/", "u",
    "/", "1", "\"", ",", " ", "\"", "h", "t", "t", "p", ":", "/", "/", "u",
    "/", "2", "\"", "]", "}">>

\* n.nbib:
\*   DO  - 10.3000/n\nPY  - 2001\nJO  - N\nAB  - PMID: 12345678 PMCID: PMC7654321\n
Text_n_nbib ==
  <<"D", "O", " ", " ", "-", " ", "1", "0", ".", "3", "0", "0", "0", "/", "n",
    "\n", "P", "Y", " ", " ", "-", " ", "2", "0", "0", "1", "\n", "J", "O",
    " ", " ", "-", " ", "N", "\n", "A", "B", " ", " ", "-", " ", "P", "M",
    "I", "D", ":", " ", "1", "2", "3", "4", "5", "6", "7", "8", " ", "P",
    "M", "C", "I", "D", ":", " ", "P", "M", "C", "7", "6", "5", "4", "3",
    "2", "1", "\n">>

\* d.txt:
\*   see https://doi.org/10.4000/d.
Text_d_txt ==
  <<"s", "e", "e", " ", "h", "t", "t", "p", "s", ":", "/", "/", "d", "o", "i",
    ".", "o", "r", "g", "/", "1", "0", ".", "4", "0", "0", "0", "/", "d",
    ".">>

\* the text of e.docx's XML parts:
\*   doi:10.6000/e at https://www.ncbi.nlm.nih.gov/pmc/articles/PMC123/ (http://u/2).
Text_e_docx ==
  <<"d", "o", "i", ":", "1", "0", ".", "6", "0", "0", "0", "/", "e", " ", "a",
    "t", " ", "h", "t", "t", "p", "s", ":", "/", "/", "w", "w", "w", ".",
    "n", "c", "b", "i", ".", "n", "l", "m", ".", "n", "i", "h", ".", "g",
    "o", "v", "/", "p", "m", "c", "/", "a", "r", "t", "i", "c", "l", "e",
    "s", "/", "P", "M", "C", "1", "2", "3", "/", " ", "(", "h", "t", "t",
    "p", ":", "/", "/", "u", "/", "2", ")", ".">>

\* p.PDF decoded, with its /URI entry appended:
\*   %PDF /URI (https://doi.org/abc)\nhttps://doi.org/abc
Text_p_pdf ==
  <<"%", "P", "D", "F", " ", "/", "U", "R", "I", " ", "(", "h", "t", "t", "p",
    "s", ":", "/", "/", "d", "o", "i", ".", "o", "r", "g", "/", "a", "b",
    "c", ")", "\n", "h", "t", "t", "p", "s", ":", "/", "/", "d", "o", "i",
    ".", "o", "r", "g", "/", "a", "b", "c">>

\* a text that names its identifiers more than once:
\*   https://doi.org/10.4000/d, 10.4000/d PMID: 12345678 https://pubmed.ncbi.nlm.nih.gov/12345678/ (https://doi.org/10.4000/d) PMCID:PMC9 pmcid PMC9
Text_repeats ==
  <<"h", "t", "t", "p", "s", ":", "/", "/", "d", "o", "i", ".", "o", "r", "g",
    "/", "1", "0", ".", "4", "0", "0", "0", "/", "d", ",", " ", "1", "0",
    ".", "4", "0", "0", "0", "/", "d", " ", "P", "M", "I", "D", ":", " ",
    "1", "2", "3", "4", "5", "6", "7", "8", " ", "h", "t", "t", "p", "s",
    ":", "/", "/", "p", "u", "b", "m", "e", "d", ".", "n", "c", "b", "i",
    ".", "n", "l", "m", ".", "n", "i", "h", ".", "g", "o", "v", "/", "1",
    "2", "3", "4", "5", "6", "7", "8", "/", " ", "(", "h", "t", "t", "p",
    "s", ":", "/", "/", "d", "o", "i", ".", "o", "r", "g", "/", "1", "0",
    ".", "4", "0", "0", "0", "/", "d", ")", " ", "P", "M", "C", "I", "D",
    ":", "P", "M", "C", "9", " ", "p", "m", "c", "i", "d", " ", "P", "M",
    "C", "9">>

\* find_urls_in_text: list({m.group(0).strip() ...}), a list in the set's
\* order; d.txt, the one text file of the tree, holds a single URL
RECURSIVE StrAll(_, _)
StrAll(seq, groups) ==
  IF groups = << >> THEN seq
  ELSE StrAll(AppendNew(seq, Str(Strip(Head(groups)))), Tail(groups))
find_urls_in_text(text) == StrAll(<< >>, FindIter(text, 1, "URL_REGEX"))

\* what the structured parsers return on the file's text:
\* parse_bibtex_for_metadata + the journal/booktitle regex, parse_ris_like_for_metadata,
\* parse_json_for_metadata, find_doi_in_text (txt/md)
NoMeta == [doi |-> NoneVal, title |-> NoneVal, authors |-> NoneVal,
           year |-> NoneVal, venue |-> NoneVal, urls |-> << >>]
Meta_d_txt == [NoMeta EXCEPT !.doi = find_doi_in_text(Text_d_txt),
                             !.urls = find_urls_in_text(Text_d_txt)]
Parsed(f, variant) ==
  CASE f = "/R/A/a.bib" ->
         [doi |-> "10.1000/xyz123", title |-> "Foo",
          authors |-> IF variant = "full" THEN "A; B" ELSE NoneVal,
          year |-> IF variant = "full" THEN "2020" ELSE NoneVal,
          venue |-> "J", urls |-> <<"http://u/1">>]
    [] f = "/R/A/b.ris" ->
         [doi |-> "10.2000/abc", title |-> "Bar", authors |-> "Smith, J; Doe, A",
          year |-> "2019", venue |-> NoneVal, urls |-> << >>]
    [] f = "/R/A/S/c.json" ->
         [doi |-> IF variant = "full" THEN "10.5000/c" ELSE NoneVal, title |-> "Baz", authors |-> "K", year |-> "2021",
          venue |-> "V", urls |-> <<"http://u/1", "http://u/2">>]
    [] f = "/R/A/S/n.nbib" ->
         [doi |-> "10.3000/n", title |-> NoneVal, authors |-> NoneVal,
          year |-> "2001", venue |-> "N", urls |-> << >>]
    [] f = "/R/B/d.txt" -> Meta_d_txt
    [] OTHER -> NoMeta

\* the text the program gets from each file: safe_read_text for .bib, .ris,
\* .nbib, .json, .txt and .md, the joined XML text of a .docx, the decoded
\* bytes and /URI entries of a .pdf
FileTexts == <<Text_a_bib_plain, Text_a_bib_full, Text_b_ris, Text_c_json_plain,
               Text_c_json_full, Text_n_nbib, Text_d_txt, Text_e_docx, Text_p_pdf>>
\* the place of a file's text in FileTexts, 0 for a file that is not read
TextIndex(f, variant) ==
  CASE f = "/R/A/a.bib" -> IF variant = "full" THEN 2 ELSE 1
    [] f = "/R/A/b.ris" -> 3
    [] f = "/R/A/S/c.json" -> IF variant = "full" THEN 5 ELSE 4
    [] f = "/R/A/S/n.nbib" -> 6
    [] f = "/R/B/d.txt" -> 7
    [] f = "/R/B/e.docx" -> 8
    [] f = "/R/A/p.PDF" -> 9
    [] OTHER -> 0
\* extract_identifiers_from_text on each of the texts, computed once
RECURSIVE ExtractAll(_)
ExtractAll(texts) ==
  IF texts = << >> THEN << >>
  ELSE <<extract_identifiers_from_text(Head(texts))>> \o ExtractAll(Tail(texts))
ExtractedIds == ExtractAll(FileTexts)
FileIds(f, variant) ==
  IF TextIndex(f, variant) = 0 THEN NoIds ELSE ExtractedIds[TextIndex(f, variant)]

\* find_doi_in_text(fname): DOI_REGEX needs a "/" after the registrant digits and
\* a file name holds none, so the scan of a file name finds nothing
find_doi_in_name(f) == NoneVal

\* files whose extraction can raise inside the try block (a JSON array makes
\* data.get fail, an unreadable PDF, a corrupt .docx archive)
MayRaise == {"/R/A/S/c.json", "/R/A/p.PDF", "/R/B/e.docx"}

\* files whose stat() can fail with an error other than FileNotFoundError
MayFailStat == {"/R/B/x.dat"}

\* ------------------------------------------------------------ tree walks
RECURSIVE _iter_subdirs_recursive(_, _, _, _)
_iter_subdirs_recursive(current_dir, current_depth, max_depth, include_hidden) ==
  IF current_depth >= max_depth THEN << >>
  ELSE LET kids == SelectSeq(ChildDirs(current_dir),
                             LAMBDA c : include_hidden \/ ~IsHiddenName(DirName(c)))
       IN Flatten([i \in 1..Len(kids) |->
                     <<kids[i]>> \o _iter_subdirs_recursive(kids[i], current_depth + 1,
                                                            max_depth, include_hidden)])

\* the subdirectories iter_subdirs yields for a root, in order
iter_subdirs(root, max_depth, include_hidden) ==
  LET kids == SelectSeq(ChildDirs(root),
                        LAMBDA c : include_hidden \/ ~IsHiddenName(DirName(c)))
  IN Flatten([i \in 1..Len(kids) |->
                <<kids[i]>> \o (IF max_depth > 1
                                THEN _iter_subdirs_recursive(kids[i], 1, max_depth,
                                                             include_hidden)
                                ELSE << >>)])

\* os.walk(folder), top-down: one (dirpath, dirnames, filenames) per directory
RECURSIVE os_walk(_)
os_walk(d) ==
  <<[dirpath |-> d, dirnames |-> ChildDirs(d), filenames |-> DirFiles(d)]>>
  \o Flatten([i \in 1..Len(ChildDirs(d)) |-> os_walk(ChildDirs(d)[i])])

\* --------------------------------------------------- gate and registry
\* the branch of the metadata walk's if/elif chain a file name takes
Branch(f) ==
  CASE EndsWith(f, ".bib") -> "bib"
    [] EndsWith(f, ".ris") \/ EndsWith(f, ".nbib") -> "ris_nbib"
    [] EndsWith(f, ".json") -> "json"
    [] EndsWith(f, ".txt") \/ EndsWith(f, ".md") -> "txt_md"
    [] EndsWith(f, ".docx") -> "docx"
    [] EndsWith(f, ".pdf") -> "pdf"
    [] OTHER -> "other"

\* the kind a branch registers on a gate denial or an exception
BranchKind(f) == Branch(f)

\* the kind a branch registers on success
SuccessKind(f) ==
  IF Branch(f) = "ris_nbib"
  THEN (IF EndsWith(f, ".ris") THEN "ris" ELSE "nbib")
  ELSE Branch(f)

\* branches that load the file's text (safe_read_text) before the gate is asked
ReadsBeforeGate(f) == Branch(f) \in {"bib", "ris_nbib", "json", "txt_md"}

\* mutant: the budget is tested before the registry
_check_parse_gate_limit_first(key, skip_already_parsed, remaining, registry) ==
  IF remaining <= 0
  THEN [allowed |-> FALSE, reason |-> "skipped_by_limit"]
  ELSE IF skip_already_parsed /\ key \in DOMAIN registry /\ registry[key].parsed = TRUE
  THEN [allowed |-> FALSE, reason |-> "skipped_already_parsed"]
  ELSE [allowed |-> TRUE, reason |-> NoneVal]

\* mutant: the limit test is off by one (< for <=)
_check_parse_gate_lt(key, skip_already_parsed, remaining, registry) ==
  IF skip_already_parsed /\ key \in DOMAIN registry /\ registry[key].parsed = TRUE
  THEN [allowed |-> FALSE, reason |-> "skipped_already_parsed"]
  ELSE IF remaining < 0
  THEN [allowed |-> FALSE, reason |-> "skipped_by_limit"]
  ELSE [allowed |-> TRUE, reason |-> NoneVal]

_check_parse_gate(key, skip_already_parsed, remaining, registry) ==
  IF skip_already_parsed /\ key \in DOMAIN registry /\ registry[key].parsed = TRUE
  THEN [allowed |-> FALSE, reason |-> "skipped_already_parsed"]
  ELSE IF remaining <= 0
  THEN [allowed |-> FALSE, reason |-> "skipped_by_limit"]
  ELSE [allowed |-> TRUE, reason |-> NoneVal]

\* info is modelled as the set of its keys whose value is true or a non-zero count
Entry(folder_path, kind, parsed, error, f, info) ==
  [folder_path |-> folder_path, kind |-> kind, parsed |-> parsed,
   error |-> OrEmpty(error), size_bytes |-> SizeOf(f), info |-> info]

_register_document_status(registry, f, folder_path, kind, parsed, error, info) ==
  [k \in DOMAIN registry \cup {f} |->
     IF k = f THEN Entry(folder_path, kind, parsed, error, f, info) ELSE registry[k]]

\* the info mapping a successful extraction attaches
SuccessInfo(f, m, ids) ==
     (IF Branch(f) = "pdf" THEN {"is_pdf"} ELSE {})
     \cup (IF Branch(f) \in {"bib", "ris_nbib", "json", "txt_md"} /\ Truthy(m.doi)
           THEN {"found_doi"} ELSE {})
     \cup (IF Branch(f) \in {"bib", "ris_nbib", "json"} /\ Truthy(m.title)
           THEN {"found_title"} ELSE {})
     \cup (IF Branch(f) \in {"bib", "ris_nbib", "json"} /\ Truthy(m.authors)
           THEN {"found_authors"} ELSE {})
     \cup (IF Branch(f) \in {"bib", "ris_nbib", "json"} /\ Truthy(m.year)
           THEN {"found_year"} ELSE {})
     \cup (IF Branch(f) \in {"ris_nbib", "json"} /\ Truthy(m.venue)
           THEN {"found_venue"} ELSE {})
     \cup (IF Branch(f) \in {"bib", "ris_nbib", "json", "txt_md"} /\ m.urls # << >>
           THEN {"urls_found"} ELSE {})
     \cup (IF ids.urls # << >> THEN {"urls_in_text"} ELSE {})
     \cup (IF ids.dois # << >> THEN {"dois_in_text"} ELSE {})
     \cup (IF ids.pmids # << >> THEN {"pmids_in_text"} ELSE {})
     \cup (IF ids.pmcs # << >> THEN {"pmcids_in_text"} ELSE {})

\* the info mapping a denial or an exception attaches
FailInfo(f) == IF Branch(f) = "pdf" THEN {"is_pdf"} ELSE {}

\* str(exc)
ExcText == "extraction failed"

\* mutant: every document that comes to the gate takes budget, denied or not
BudgetAfter_always(remaining, outcome) == remaining - 1

\* mutant: the decrement sits in a finally clause, so an extraction that
\* raises takes budget too
BudgetAfter_finally(remaining, outcome) ==
  IF outcome \in {"parsed", "raised"} THEN remaining - 1 ELSE remaining

\* the budget after a document went through a branch: only the else clause of
\* the try (the extraction completed) takes one; "continue" and except take none
BudgetAfter(remaining, outcome) ==
  IF outcome = "parsed" THEN remaining - 1 ELSE remaining

\* mutant: the driver has no limit check and goes on to the next folder
LimitReached_never(remaining) == FALSE

\* "If limit reached, stop scanning further"
LimitReached(remaining) == remaining <= 0

\* ------------------------------------------------------- the output files
\* the order of the paths that occur in the indexes (str comparison)
PathOrder == <<"/R/A/S/c.json", "/R/A/S/n.nbib", "/R/A/a.bib", "/R/A/b.ris", "/R/A/p.PDF",
               "/R/B/d.txt", "/R/B/e.docx", "/p1", "/p2">>

\* sorted(list(v)) for a set of paths
SortedList(S) == SelectSeq(PathOrder, LAMBDA p : p \in S)

\* a file that is not there, and what json.loads makes of one that is: it
\* raises, or returns a list, or returns a dict whose values are lists of
\* paths or something else (null)
Absent == [exists |-> FALSE]
NotJson == [exists |-> TRUE, json |-> "invalid"]
JsonArray == [exists |-> TRUE, json |-> "array"]
JsonObject(d) == [exists |-> TRUE, json |-> "object", data |-> d]
JsonList(items) == [type |-> "list", items |-> items]
JsonNull == [type |-> "null"]

\* serializable = {k: sorted(list(v)) for k, v in d.items()}
Serializable(d) == [k \in DOMAIN d |-> JsonList(SortedList(d[k]))]

\* mutant: the persisted list replaces the new one
MergeIndex_replace(ser, existing) ==
  [k \in DOMAIN ser \cup {x \in DOMAIN existing : existing[x].type = "list"} |->
     IF k \in DOMAIN existing /\ existing[k].type = "list"
     THEN JsonList(SortedList(Range(existing[k].items)))
     ELSE ser[k]]

\* "Merge lists as sets": the loop over existing.items()
MergeIndex(ser, existing) ==
  [k \in DOMAIN ser \cup {x \in DOMAIN existing : existing[x].type = "list"} |->
     IF k \in DOMAIN existing /\ existing[k].type = "list"
     THEN JsonList(SortedList((IF k \in DOMAIN ser THEN Range(ser[k].items) ELSE {})
                              \cup Range(existing[k].items)))
     ELSE ser[k]]

\* _dump_dict_set(d, path_str) with the file at the path, the write mode and
\* whether write_text succeeds: the file afterwards and whether the failure
\* was printed
_dump_dict_set(d, path_str, file, mode, writable) ==
  IF ~Truthy(path_str) THEN [file |-> file, logged |-> FALSE]
  ELSE IF ~writable THEN [file |-> file, logged |-> TRUE]
  ELSE [file |-> JsonObject(IF mode = "append" /\ file.exists /\ file.json = "object"
                            THEN MergeIndex(Serializable(d), file.data)
                            ELSE Serializable(d)),
        logged |-> FALSE]

\* the items of a JSON value taken as a list of sources: none unless it is one
ListItems(v) == IF v.type = "list" THEN Range(v.items) ELSE {}

\* serializable[doi_key] = {"title": rec.get("title"), ..., "sources": sorted(...)}
SerializableRecords(records) ==
  [k \in DOMAIN records |->
     [title |-> records[k].title, authors |-> records[k].authors,
      year |-> records[k].year, venue |-> records[k].venue,
      sources |-> JsonList(SortedList(records[k].sources))]]

\* mutant: the new value of a field stands, empty or not
KeepOld_never(old, curr) == curr

\* "if old.get(fld) and not curr.get(fld): curr[fld] = old.get(fld)"
KeepOld(old, curr) == IF Truthy(old) /\ ~Truthy(curr) THEN old ELSE curr

\* "Merge: prefer existing non-null metadata; union sources", for a DOI that
\* both sides hold
MergeRecord(old, curr) ==
  [title |-> KeepOld(old.title, curr.title), authors |-> KeepOld(old.authors, curr.authors),
   year |-> KeepOld(old.year, curr.year), venue |-> KeepOld(old.venue, curr.venue),
   sources |-> JsonList(SortedList(ListItems(old.sources) \cup ListItems(curr.sources)))]

\* the loop over existing.items()
MergeRecords(ser, existing) ==
  [k \in DOMAIN ser \cup DOMAIN existing |->
     IF k \notin DOMAIN ser THEN existing[k]
     ELSE IF k \notin DOMAIN existing THEN ser[k]
     ELSE MergeRecord(existing[k], ser[k])]

\* main, lines 1175-1210: DOI_IN_TEXT_DICT is written next to the DOI index,
\* if that is configured; the file afterwards and whether the failure was
\* printed
WriteDoiRecords(records, output_doi_dict, file, mode, writable) ==
  IF ~Truthy(output_doi_dict) THEN [file |-> file, logged |-> FALSE]
  ELSE IF ~writable THEN [file |-> file, logged |-> TRUE]
  ELSE [file |-> JsonObject(IF mode = "append" /\ file.exists /\ file.json = "object"
                            THEN MergeRecords(SerializableRecords(records), file.data)
                            ELSE SerializableRecords(records)),
        logged |-> FALSE]

\* write_csv(summaries, output): the file is opened with 'w' and rewritten
write_csv(summaries) == [exists |-> TRUE, rows |-> summaries]

\* write_json(summaries, output, mode): in append mode a file that holds a
\* JSON list is extended, any other is replaced
write_json(summaries, file, mode) ==
  [exists |-> TRUE, json |-> "array",
   items |-> IF mode = "append" /\ file.exists /\ file.json = "array"
             THEN file.items \o summaries ELSE summaries]

\* no output file has been written yet
NoOutFiles ==
  [csv |-> Absent, json |-> Absent, url_dict |-> Absent, doi_dict |-> Absent,
   pubmed_id_dict |-> Absent, pmc_id_dict |-> Absent, records |-> Absent]

\* ------------------------------------------------------------------ state
VARIABLES
  args,        \* the parsed command line (argparse.Namespace)
  variant,     \* which contents the files have
  raises,      \* the files whose extraction raises
  statErr,     \* the files whose stat() raises PermissionError
  fault,       \* the one more operation that raises OSError: scanning a root, or writing an output file
  run,         \* 1 for the first run of the program, 2 for the next, ...
  pc,          \* where main is
  exit_code,   \* << >> while main runs, then <<the value main returned>>
  input_dirs,  \* main's list of valid roots
  ri, si,      \* positions of main's loops over input_dirs and iter_subdirs
  remaining,   \* _GLOBAL_PARSE_CONTROL.remaining_documents_to_parse
  registry,    \* DOCUMENT_PARSE_REGISTRY
  url_registry,\* PAPER_URL_REGISTRY
  summaries,   \* main's list of folder summaries
  cur,         \* locals of the summarize_folder call in progress
  persisted,   \* the document registry file on disk: whether it exists, and its object
  out_files,   \* the summary files, the identifier index files and the DOI records file on disk
  outputs,     \* history: the output files main tried to write, in order, over all runs
  link_dicts,  \* URL_DICT, DOI_DICT, PUBMED_ID_DICT and PMC_ID_DICT
  doi_records, \* DOI_IN_TEXT_DICT
  call,        \* the last direct call of a function, in the specifications of single functions
  reached,     \* history: the folders summarize_folder was called on, with the budget then
  gated,       \* history: the gate's decisions of this run, in order
  log,         \* history: the registry entries written in this run, in order
  contentRead, \* history: the files whose text or bytes were loaded in this run
  exhaustedIn  \* history: the folder being walked when the budget dropped to 0

vars == <<args, variant, raises, statErr, fault, run, pc, exit_code, input_dirs, ri, si,
          remaining, registry, url_registry, summaries, cur, persisted, out_files,
          outputs, link_dicts, doi_records, call, reached, gated, log, contentRead,
          exhaustedIn>>

env == <<args, variant, raises, statErr, fault, call>>
disk == <<out_files, outputs>>
hist == <<reached, gated, log, contentRead, exhaustedIn>>
mem == <<link_dicts, doi_records>>

NoFile == [exists |-> FALSE, data |-> [k \in {} |-> NoneVal]]
OnDisk(d) == [exists |-> TRUE, data |-> d]
NoCur == [folder |-> NoneVal]
NoCall == [op |-> NoneVal]
NoRecords == [k \in {} |-> NoRecord]
EmptyDict == [k \in {} |-> NoneVal]

\* the operations that can fail with an OSError: os.scandir of a root, and
\* the writing of each output file
OutputFiles == <<"csv", "json", "doc_registry", "url_dict", "doi_dict", "pubmed_id_dict",
                 "pmc_id_dict", "records">>
Faults == {"scandir"} \cup Range(OutputFiles)

\* the command lines tried
RootLists == {<<"/R">>, <<"/R", "/R/A">>, <<"/R/A/a.bib", "/R/A">>, <<"/nope">>}
ArgSets ==
  [paths : RootLists,
   max_depth : {1, MaxDepthArg},
   include_hidden : BOOLEAN,
   only_with_pdfs : BOOLEAN,
   paper_max : -1..MaxPaper,
   skip_parsed : BOOLEAN,
   output_write_mode : {"append", "overwrite"}]

\* the module-level state of a fresh process, before main runs
Fresh ==
  /\ pc = "start"
  /\ exit_code = << >>
  /\ input_dirs = << >>
  /\ ri = 1 /\ si = 1
  /\ remaining = 0
  /\ registry = EmptyDict
  /\ url_registry = EmptyDict
  /\ summaries = << >>
  /\ cur = NoCur
  /\ link_dicts = NoLinks
  /\ doi_records = NoRecords
  /\ reached = << >>
  /\ gated = << >>
  /\ log = << >>
  /\ contentRead = {}
  /\ exhaustedIn = NoneVal

Init ==
  /\ args \in ArgSets
  /\ variant \in Variants
  /\ raises \in {{}} \cup {{f} : f \in MayRaise}
  /\ statErr \in {{}} \cup {{f} : f \in MayFailStat}
  /\ statErr # {} => raises = {}
  /\ fault \in {NoneVal} \cup Faults
  /\ fault # NoneVal =>
       /\ raises = {} /\ statErr = {} /\ variant = "plain"
       /\ args.max_depth = 1 /\ ~args.include_hidden /\ ~args.only_with_pdfs
       /\ ~args.skip_parsed /\ args.output_write_mode = "append"
  /\ run = 1
  /\ persisted = NoFile
  /\ out_files = NoOutFiles
  /\ outputs = << >>
  /\ call = NoCall
  /\ Fresh

\* ------------------------------------------------- summarize_folder, part 1
\* one registry write, kept with the history of writes
Write(st, f, folder, kind, parsed, error, info, walk) ==
  [st EXCEPT
     !.registry = _register_document_status(st.registry, f, folder, kind, parsed, error, info),
     !.log = Append(st.log, [path |-> f, folder_path |-> folder, kind |-> kind,
                             parsed |-> parsed, error |-> OrEmpty(error), walk |-> walk])]

ZeroCounts ==
  [num_files_total |-> 0, num_dirs_total |-> 0, num_pdfs |-> 0, num_bibtex |-> 0,
   num_ris |-> 0, num_nbib |-> 0, num_json |-> 0, num_txt_md |-> 0,
   total_size_bytes |-> 0, example_pdf |-> ""]

\* mutant: num_files_total += 1 sits after the try block around stat()
CountFile_late(st, f, folder, failing, gone) ==
  LET c1 == [st.counts EXCEPT !.num_files_total = @ + 1]
  IN IF f \in gone THEN st
     ELSE IF f \in failing THEN [st EXCEPT !.raised = TRUE]
     ELSE LET c2 == [c1 EXCEPT !.total_size_bytes = @ + SizeOf(f)]
          IN IF EndsWith(f, ".pdf")
             THEN Write([st EXCEPT !.counts =
                            [c2 EXCEPT !.num_pdfs = @ + 1,
                                       !.example_pdf = IF @ = "" THEN f ELSE @]],
                        f, folder, "pdf", FALSE, NoneVal, {"is_pdf"}, "count")
             ELSE IF EndsWith(f, ".bib")
             THEN [st EXCEPT !.counts = [c2 EXCEPT !.num_bibtex = @ + 1]]
             ELSE IF EndsWith(f, ".ris")
             THEN [st EXCEPT !.counts = [c2 EXCEPT !.num_ris = @ + 1]]
             ELSE IF EndsWith(f, ".nbib")
             THEN [st EXCEPT !.counts = [c2 EXCEPT !.num_nbib = @ + 1]]
             ELSE IF EndsWith(f, ".json")
             THEN [st EXCEPT !.counts = [c2 EXCEPT !.num_json = @ + 1]]
             ELSE IF EndsWith(f, ".txt") \/ EndsWith(f, ".md")
             THEN [st EXCEPT !.counts = [c2 EXCEPT !.num_txt_md = @ + 1]]
             ELSE [st EXCEPT !.counts = c2]

\* the body of the counting loop for one file; stat() failing with
\* FileNotFoundError (the files of gone) goes on with the next file, failing
\* with anything else leaves the loop (and summarize_folder) by the exception
CountFile(st, f, folder, failing, gone) ==
  LET c1 == [st.counts EXCEPT !.num_files_total = @ + 1]
  IN IF f \in gone THEN [st EXCEPT !.counts = c1]
     ELSE IF f \in failing THEN [st EXCEPT !.counts = c1, !.raised = TRUE]
     ELSE LET c2 == [c1 EXCEPT !.total_size_bytes = @ + SizeOf(f)]
          IN IF EndsWith(f, ".pdf")
             THEN Write([st EXCEPT !.counts =
                            [c2 EXCEPT !.num_pdfs = @ + 1,
                                       !.example_pdf = IF @ = "" THEN f ELSE @]],
                        f, folder, "pdf", FALSE, NoneVal, {"is_pdf"}, "count")
             ELSE IF EndsWith(f, ".bib")
             THEN [st EXCEPT !.counts = [c2 EXCEPT !.num_bibtex = @ + 1]]
             ELSE IF EndsWith(f, ".ris")
             THEN [st EXCEPT !.counts = [c2 EXCEPT !.num_ris = @ + 1]]
             ELSE IF EndsWith(f, ".nbib")
             THEN [st EXCEPT !.counts = [c2 EXCEPT !.num_nbib = @ + 1]]
             ELSE IF EndsWith(f, ".json")
             THEN [st EXCEPT !.counts = [c2 EXCEPT !.num_json = @ + 1]]
             ELSE IF EndsWith(f, ".txt") \/ EndsWith(f, ".md")
             THEN [st EXCEPT !.counts = [c2 EXCEPT !.num_txt_md = @ + 1]]
             ELSE [st EXCEPT !.counts = c2]

RECURSIVE CountFiles(_, _, _, _, _)
CountFiles(st, fs, folder, failing, gone) ==
  IF fs = << >> \/ st.raised THEN st
  ELSE CountFiles(CountFile(st, Head(fs), folder, failing, gone), Tail(fs), folder,
                  failing, gone)

RECURSIVE CountGroups(_, _, _, _, _)
CountGroups(st, groups, folder, failing, gone) ==
  IF groups = << >> \/ st.raised THEN st
  ELSE LET g == Head(groups)
           s1 == [st EXCEPT !.counts.num_dirs_total = @ + Len(g.dirnames)]
       IN CountGroups(CountFiles(s1, g.filenames, folder, failing, gone),
                      Tail(groups), folder, failing, gone)

\* the counting walk of summarize_folder over a folder; no file of the tree
\* is removed while main walks it
CountWalk(folder, reg, lg, failing) ==
  CountGroups([counts |-> ZeroCounts, registry |-> reg, log |-> lg, raised |-> FALSE],
              os_walk(folder), folder, failing, {})

\* ------------------------------------------- extract_metadata_from_folder
NoBest == [doi |-> NoneVal, title |-> NoneVal, authors |-> NoneVal,
           year |-> NoneVal, venue |-> NoneVal]

\* the position of the next file of the walk at or after (gi, fi); gi beyond
\* the last directory when the walk is over
RECURSIVE Normalize(_, _, _)
Normalize(groups, gi, fi) ==
  IF gi > Len(groups) THEN <<gi, 1>>
  ELSE IF fi > Len(groups[gi].filenames) THEN Normalize(groups, gi + 1, 1)
  ELSE <<gi, fi>>

\* "Early exit if we already have strong metadata"
Strong(best) ==
  Truthy(best.doi) /\ Truthy(best.title) /\ Truthy(best.authors) /\ Truthy(best.year)

\* where the walk goes after a file: break leaves the directory's file loop only
AfterFile(groups, gi, fi, break) ==
  IF break THEN Normalize(groups, gi + 1, 1) ELSE Normalize(groups, gi, fi + 1)

\* the folder-level best values after a document of the branch was handled,
\* m being what its parser returned (all None after an exception)
MergeBest(best, branch, m) ==
  CASE branch = "bib" ->
         [best EXCEPT !.doi = PyOr(@, m.doi), !.title = PyOr(@, m.title),
                      !.authors = PyOr(@, m.authors), !.year = PyOr(@, m.year)]
    [] branch \in {"ris_nbib", "json"} ->
         [best EXCEPT !.doi = PyOr(@, m.doi), !.title = PyOr(@, m.title),
                      !.authors = PyOr(@, m.authors), !.year = PyOr(@, m.year),
                      !.venue = PyOr(@, m.venue)]
    [] branch = "txt_md" ->
         [best EXCEPT !.doi = IF @ = NoneVal /\ Truthy(m.doi) THEN m.doi ELSE @]
    [] OTHER -> best

\* "Try to find DOI in filename as a quick win"
NameScan(best, f) ==
  IF best.doi = NoneVal /\ Truthy(find_doi_in_name(f))
  THEN [best EXCEPT !.doi = find_doi_in_name(f)] ELSE best

\* "Deduplicate URLs while preserving order"
RECURSIVE Dedup(_, _)
Dedup(us, seen) ==
  IF us = << >> THEN << >>
  ELSE IF Head(us) # "" /\ Head(us) \notin seen
       THEN <<Head(us)>> \o Dedup(Tail(us), seen \cup {Head(us)})
       ELSE Dedup(Tail(us), seen)

\* ------------------------------------------------------------------ main
PathExists(p) == p \in Dirs \cup Files
IsDir(p) == p \in Dirs

\* the roots main keeps
ValidRoots(paths) == SelectSeq(paths, LAMBDA p : PathExists(p) /\ IsDir(p))

\* the candidate folders of the root main is at
Subdirs == iter_subdirs(input_dirs[ri], args.max_depth, args.include_hidden)

\* main, lines 1034-1048: no valid root
NoValidRoots ==
  /\ pc = "start"
  /\ ValidRoots(args.paths) = << >>
  /\ pc' = "exit"
  /\ exit_code' = <<2>>
  /\ UNCHANGED <<env, disk, run, input_dirs, ri, si, remaining, registry, url_registry,
                 summaries, cur, persisted, mem, hist>>

\* main, lines 1034-1055: the roots are validated and the parse control is set
StartRun ==
  /\ pc = "start"
  /\ ValidRoots(args.paths) # << >>
  /\ input_dirs' = ValidRoots(args.paths)
  /\ remaining' = Max(0, args.paper_max)
  /\ ri' = 1 /\ si' = 1
  /\ pc' = "loop"
  /\ UNCHANGED <<env, disk, run, exit_code, registry, url_registry, summaries, cur,
                 persisted, mem, hist>>

\* iter_subdirs, lines 172-190, under main's loop: os.scandir of the root
\* raises an OSError that is no FileNotFoundError (the directory may not be
\* read); nothing catches it, and the process ends with a traceback, status 1
EnumerationRaises ==
  /\ pc = "loop"
  /\ fault = "scandir"
  /\ pc' = "crashed"
  /\ exit_code' = <<1>>
  /\ UNCHANGED <<env, disk, run, input_dirs, ri, si, remaining, registry, url_registry,
                 summaries, cur, persisted, mem, hist>>

\* main, lines 1083-1084 and 1106-1107: the limit is reached, both loops are left
BreakOnLimit ==
  /\ pc = "loop"
  /\ fault # "scandir"
  /\ si <= Len(Subdirs)
  /\ LimitReached(remaining)
  /\ pc' = "sort"
  /\ UNCHANGED <<env, disk, run, exit_code, input_dirs, ri, si, remaining, registry,
                 url_registry, summaries, cur, persisted, mem, hist>>

\* main, lines 1075-1076 and 1105-1107: a root's folders are done
NextRoot ==
  /\ pc = "loop"
  /\ fault # "scandir"
  /\ si > Len(Subdirs)
  /\ IF LimitReached(remaining) \/ ri = Len(input_dirs)
     THEN pc' = "sort" /\ UNCHANGED <<ri, si>>
     ELSE pc' = "loop" /\ ri' = ri + 1 /\ si' = 1
  /\ UNCHANGED <<env, disk, run, exit_code, input_dirs, remaining, registry,
                 url_registry, summaries, cur, persisted, mem, hist>>

\* summarize_folder, lines 784-842: the counting walk completes
CountWalkDone ==
  /\ pc = "loop"
  /\ fault # "scandir"
  /\ si <= Len(Subdirs)
  /\ ~LimitReached(remaining)
  /\ LET folder == Subdirs[si]
         st == CountWalk(folder, registry, log, statErr)
         pos == Normalize(os_walk(folder), 1, 1)
     IN /\ ~st.raised
        /\ registry' = st.registry
        /\ log' = st.log
        /\ cur' = [root |-> input_dirs[ri], folder |-> folder, counts |-> st.counts,
                   best |-> NoBest, urls |-> << >>, gi |-> pos[1], fi |-> pos[2]]
        /\ reached' = Append(reached, [folder |-> folder, remaining |-> remaining])
        /\ pc' = IF pos[1] > Len(os_walk(folder)) THEN "collect" ELSE "walk"
  /\ UNCHANGED <<env, disk, run, exit_code, input_dirs, ri, si, remaining, url_registry,
                 summaries, persisted, mem, gated, contentRead, exhaustedIn>>

\* mutant: the folder whose summary failed is entered in the URL registry
CountWalkRaises_registers ==
  /\ pc = "loop"
  /\ fault # "scandir"
  /\ si <= Len(Subdirs)
  /\ ~LimitReached(remaining)
  /\ LET folder == Subdirs[si]
         st == CountWalk(folder, registry, log, statErr)
     IN /\ st.raised
        /\ registry' = st.registry
        /\ log' = st.log
        /\ reached' = Append(reached, [folder |-> folder, remaining |-> remaining])
        /\ url_registry' =
             [k \in DOMAIN url_registry \cup {folder} |->
                IF k = folder
                THEN [folder |-> DirName(folder), root |-> input_dirs[ri], urls |-> << >>,
                      has_pdf |-> FALSE, example_pdf |-> ""]
                ELSE url_registry[k]]
  /\ si' = si + 1
  /\ pc' = "loop"
  /\ UNCHANGED <<env, disk, run, exit_code, input_dirs, ri, remaining,
                 summaries, cur, persisted, mem, gated, contentRead, exhaustedIn>>

\* summarize_folder raises in its counting walk; main, lines 1087-1089
CountWalkRaises ==
  /\ pc = "loop"
  /\ fault # "scandir"
  /\ si <= Len(Subdirs)
  /\ ~LimitReached(remaining)
  /\ LET folder == Subdirs[si]
         st == CountWalk(folder, registry, log, statErr)
     IN /\ st.raised
        /\ registry' = st.registry
        /\ log' = st.log
        /\ reached' = Append(reached, [folder |-> folder, remaining |-> remaining])
  /\ si' = si + 1
  /\ pc' = "loop"
  /\ UNCHANGED <<env, disk, run, exit_code, input_dirs, ri, remaining, url_registry,
                 summaries, cur, persisted, mem, gated, contentRead, exhaustedIn>>

\* the file the metadata walk is at
CurGroups == os_walk(cur.folder)
CurFile == CurGroups[cur.gi].filenames[cur.fi]
CurGate == _check_parse_gate(CurFile, args.skip_parsed, remaining, registry)
NowState == [registry |-> registry, log |-> log]

\* where the walk stands after the file; the walk over, the summary is next
Advance(best, urls, break) ==
  LET pos == AfterFile(CurGroups, cur.gi, cur.fi, break)
  IN /\ cur' = [cur EXCEPT !.best = best, !.urls = urls, !.gi = pos[1], !.fi = pos[2]]
     /\ pc' = IF pos[1] > Len(CurGroups) THEN "collect" ELSE "walk"

\* a file no branch of the if/elif chain takes (lines 503-512, 768-770)
VisitOther ==
  /\ pc = "walk"
  /\ Branch(CurFile) = "other"
  /\ LET best == NameScan(cur.best, CurFile)
     IN Advance(best, cur.urls, Strong(best))
  /\ UNCHANGED <<env, disk, run, exit_code, input_dirs, ri, si, remaining, registry,
                 url_registry, summaries, persisted, mem, hist>>

\* the gate denies: the entry is written and the loop continues (no early-exit check)
VisitDenied ==
  /\ pc = "walk"
  /\ Branch(CurFile) # "other"
  /\ ~CurGate.allowed
  /\ LET st == Write(NowState, CurFile, cur.folder, BranchKind(CurFile), FALSE,
                     CurGate.reason, FailInfo(CurFile), "meta")
     IN registry' = st.registry /\ log' = st.log
  /\ gated' = Append(gated, [path |-> CurFile, allowed |-> FALSE, reason |-> CurGate.reason])
  /\ contentRead' = IF ReadsBeforeGate(CurFile) THEN contentRead \cup {CurFile}
                    ELSE contentRead
  /\ Advance(NameScan(cur.best, CurFile), cur.urls, FALSE)
  /\ remaining' = BudgetAfter(remaining, "denied")
  /\ UNCHANGED <<env, disk, run, exit_code, input_dirs, ri, si, url_registry,
                 summaries, persisted, mem, reached, exhaustedIn>>

\* the gate allows and the extraction raises: the except clause
VisitRaised ==
  /\ pc = "walk"
  /\ Branch(CurFile) # "other"
  /\ CurGate.allowed
  /\ CurFile \in raises
  /\ LET st == Write(NowState, CurFile, cur.folder, BranchKind(CurFile), FALSE,
                     ExcText, FailInfo(CurFile), "meta")
         best == MergeBest(NameScan(cur.best, CurFile), Branch(CurFile), NoMeta)
     IN /\ registry' = st.registry /\ log' = st.log
        /\ Advance(best, cur.urls, Strong(best))
  /\ gated' = Append(gated, [path |-> CurFile, allowed |-> TRUE, reason |-> NoneVal])
  /\ contentRead' = contentRead \cup {CurFile}
  /\ remaining' = BudgetAfter(remaining, "raised")
  /\ UNCHANGED <<env, disk, run, exit_code, input_dirs, ri, si, url_registry,
                 summaries, persisted, mem, reached, exhaustedIn>>

\* the gate allows and the extraction completes: the else clause takes the budget
\* what a branch does with the metadata m its parser returned and the
\* identifiers all_ids of the text: the link dictionaries, the DOI records,
\* the best fields of the folder and the registry entry
Extracted(f, m, all_ids) ==
  LET structured == Branch(f) \in {"bib", "ris_nbib", "json"}
      links == FoldIds(link_dicts, all_ids, f)
      st == Write(NowState, f, cur.folder, SuccessKind(f), TRUE,
                  NoneVal, SuccessInfo(f, m, all_ids), "meta")
      best == MergeBest(NameScan(cur.best, f), Branch(f), m)
  IN /\ registry' = st.registry /\ log' = st.log
     /\ link_dicts' = IF structured
                      THEN [links EXCEPT !.url = AddAll(@, m.urls, f)]
                      ELSE links
     /\ doi_records' =
          IF structured
          THEN UpdateOtherDois(
                 update_doi_record(doi_records, m.doi, f, m.title, m.authors,
                                   m.year, m.venue),
                 all_ids.dois, m.doi, f)
          ELSE UpdateOtherDois(doi_records, all_ids.dois, NoneVal, f)
     /\ Advance(best, cur.urls \o m.urls, Strong(best))

VisitParsed ==
  /\ pc = "walk"
  /\ Branch(CurFile) # "other"
  /\ CurGate.allowed
  /\ CurFile \notin raises
  /\ Extracted(CurFile, Parsed(CurFile, variant), FileIds(CurFile, variant))
  /\ remaining' = BudgetAfter(remaining, "parsed")
  /\ exhaustedIn' = IF remaining > 0 /\ remaining' <= 0 THEN cur.folder ELSE exhaustedIn
  /\ gated' = Append(gated, [path |-> CurFile, allowed |-> TRUE, reason |-> NoneVal])
  /\ contentRead' = contentRead \cup {CurFile}
  /\ UNCHANGED <<env, disk, run, exit_code, input_dirs, ri, si, url_registry,
                 summaries, persisted, reached>>

\* doi_to_url, for a DOI without a leading "doi:"
doi_to_url(doi) == "https://doi.org/" \o doi

\* summarize_folder, lines 845-873 (timestamps and is_symlink left out)
FolderSummary(c) ==
  [root_input_dir |-> c.root, folder_name |-> DirName(c.folder), folder_path |-> c.folder,
   num_files_total |-> c.counts.num_files_total, num_dirs_total |-> c.counts.num_dirs_total,
   num_pdfs |-> c.counts.num_pdfs, num_bibtex |-> c.counts.num_bibtex,
   num_ris |-> c.counts.num_ris, num_nbib |-> c.counts.num_nbib,
   num_json |-> c.counts.num_json, num_txt_md |-> c.counts.num_txt_md,
   total_size_bytes |-> c.counts.total_size_bytes, example_pdf |-> c.counts.example_pdf,
   doi |-> OrEmpty(c.best.doi), title |-> OrEmpty(c.best.title),
   authors |-> OrEmpty(c.best.authors), year |-> OrEmpty(c.best.year),
   venue |-> OrEmpty(c.best.venue)]

\* main, lines 1097-1103
UrlEntry(summary, urls) ==
  [folder |-> summary.folder_name, root |-> summary.root_input_dir,
   urls |-> urls \o (IF summary.doi # "" THEN <<doi_to_url(summary.doi)>> ELSE << >>),
   has_pdf |-> summary.num_pdfs > 0, example_pdf |-> summary.example_pdf]

\* main, lines 1090-1091: the only-with-pdfs filter
Filtered(summary) == args.only_with_pdfs /\ summary.num_pdfs < 1

\* main, lines 1086-1103: the summary is collected
CollectSummary ==
  /\ pc = "collect"
  /\ LET summary == FolderSummary(cur)
     IN /\ ~Filtered(summary)
        /\ summaries' = Append(summaries, summary)
        /\ url_registry' =
             [k \in DOMAIN url_registry \cup {summary.folder_path} |->
                IF k = summary.folder_path
                THEN UrlEntry(summary, Dedup(cur.urls, {})) ELSE url_registry[k]]
  /\ cur' = NoCur
  /\ si' = si + 1
  /\ pc' = "loop"
  /\ UNCHANGED <<env, disk, run, exit_code, input_dirs, ri, remaining, registry,
                 persisted, mem, hist>>

\* main, lines 1090-1091: a folder without PDFs is left out
DropWithoutPdf ==
  /\ pc = "collect"
  /\ Filtered(FolderSummary(cur))
  /\ cur' = NoCur
  /\ si' = si + 1
  /\ pc' = "loop"
  /\ UNCHANGED <<env, disk, run, exit_code, input_dirs, ri, remaining, registry,
                 url_registry, summaries, persisted, mem, hist>>

\* the order of the strings the sort key compares
StrRank(x) ==
  CASE x = ".h" -> 1 [] x = "a" -> 2 [] x = "b" -> 3 [] x = "s" -> 4
    [] x = "/R" -> 1 [] x = "/R/A" -> 2
    [] OTHER -> 0

\* str.lower() of a folder name
LowerName(n) ==
  CASE n = "A" -> "a" [] n = "B" -> "b" [] n = "S" -> "s" [] OTHER -> n

\* key=lambda s: (s.root_input_dir, s.folder_name.lower())
KeyLess(x, y) ==
  \/ StrRank(x.root_input_dir) < StrRank(y.root_input_dir)
  \/ /\ x.root_input_dir = y.root_input_dir
     /\ StrRank(LowerName(x.folder_name)) < StrRank(LowerName(y.folder_name))

\* list.sort: stable
RECURSIVE InsertSorted(_, _)
InsertSorted(sorted, x) ==
  IF sorted = << >> THEN <<x>>
  ELSE IF KeyLess(x, Head(sorted)) THEN <<x>> \o sorted
  ELSE <<Head(sorted)>> \o InsertSorted(Tail(sorted), x)

RECURSIVE StableSort(_)
StableSort(xs) ==
  IF xs = << >> THEN << >>
  ELSE InsertSorted(StableSort(SubSeq(xs, 1, Len(xs) - 1)), xs[Len(xs)])

\* main, line 1110
SortSummaries ==
  /\ pc = "sort"
  /\ summaries' = StableSort(summaries)
  /\ pc' = "emit"
  /\ UNCHANGED <<env, disk, run, exit_code, input_dirs, ri, si, remaining, registry,
                 url_registry, cur, persisted, mem, hist>>

\* one more output file that main tried to write, and how that ended
Tried(artifact, failed, logged) ==
  [run |-> run, artifact |-> artifact, failed |-> failed, logged |-> logged]

\* main, lines 1112-1123: nothing goes to stdout (--stdout-format none, the
\* default), and the summaries are written as CSV and as JSON to their
\* default paths; neither call is inside a try, so an OSError of either
\* leaves main, and the process ends with a traceback and status 1
WriteSummaries ==
  /\ pc = "emit"
  /\ out_files' = [out_files EXCEPT
                     !.csv = IF fault = "csv" THEN @ ELSE write_csv(summaries),
                     !.json = IF fault \in {"csv", "json"} THEN @
                              ELSE write_json(summaries, @, args.output_write_mode)]
  /\ outputs' = outputs \o <<Tried("csv", fault = "csv", FALSE)>>
                 \o (IF fault = "csv" THEN << >>
                     ELSE <<Tried("json", fault = "json", FALSE)>>)
  /\ pc' = IF fault \in {"csv", "json"} THEN "crashed" ELSE "write"
  /\ exit_code' = IF fault \in {"csv", "json"} THEN <<1>> ELSE exit_code
  /\ UNCHANGED <<env, run, input_dirs, ri, si, remaining, registry, url_registry,
                 summaries, cur, persisted, mem, hist>>

\* dict(existing); merged.update(DOCUMENT_PARSE_REGISTRY)
MergeRegistry(existing, new) ==
  [k \in DOMAIN existing \cup DOMAIN new |-> IF k \in DOMAIN new THEN new[k] ELSE existing[k]]

\* main, lines 1125-1143: the document registry file is written; a failure
\* is printed to stderr
WriteDocRegistry ==
  /\ pc = "write"
  /\ persisted' = IF fault = "doc_registry" THEN persisted
                  ELSE IF args.output_write_mode = "append" /\ persisted.exists
                  THEN OnDisk(MergeRegistry(persisted.data, registry))
                  ELSE OnDisk(registry)
  /\ outputs' = Append(outputs, Tried("doc_registry", fault = "doc_registry",
                                      fault = "doc_registry"))
  /\ pc' = "indexes"
  /\ UNCHANGED <<env, out_files, run, exit_code, input_dirs, ri, si, remaining, registry,
                 url_registry, summaries, cur, mem, hist>>

\* one of the four calls of lines 1170-1173, to the default path of the index
DumpIndex(name, d) ==
  _dump_dict_set(d, name, out_files[name], args.output_write_mode, fault # name)

\* main, lines 1145-1212: the four identifier indexes are written, then the
\* DOI records; each has a try of its own that prints the failure; main
\* returns 0
WriteIndexes ==
  /\ pc = "indexes"
  /\ out_files' =
       [out_files EXCEPT
          !.url_dict = DumpIndex("url_dict", link_dicts.url).file,
          !.doi_dict = DumpIndex("doi_dict", link_dicts.doi).file,
          !.pubmed_id_dict = DumpIndex("pubmed_id_dict", link_dicts.pmid).file,
          !.pmc_id_dict = DumpIndex("pmc_id_dict", link_dicts.pmc).file,
          !.records = WriteDoiRecords(doi_records, "doi_dict", @, args.output_write_mode,
                                      fault # "records").file]
  /\ outputs' = outputs \o
       [i \in 1..5 |-> Tried(OutputFiles[i + 3], fault = OutputFiles[i + 3],
                             fault = OutputFiles[i + 3])]
  /\ pc' = "done"
  /\ exit_code' = <<0>>
  /\ UNCHANGED <<env, run, input_dirs, ri, si, remaining, registry, url_registry,
                 summaries, cur, persisted, mem, hist>>

\* the program is started again on the same tree with the same command line:
\* a new process, whose module-level state is empty
NextRun ==
  /\ pc \in {"done", "exit", "crashed"}
  /\ run < MaxRuns
  /\ run' = run + 1
  /\ pc' = "start"
  /\ exit_code' = << >>
  /\ input_dirs' = << >>
  /\ ri' = 1 /\ si' = 1
  /\ remaining' = 0
  /\ registry' = EmptyDict
  /\ url_registry' = EmptyDict
  /\ summaries' = << >>
  /\ cur' = NoCur
  /\ link_dicts' = NoLinks
  /\ doi_records' = NoRecords
  /\ reached' = << >>
  /\ gated' = << >>
  /\ log' = << >>
  /\ contentRead' = {}
  /\ exhaustedIn' = NoneVal
  /\ UNCHANGED <<env, disk, persisted>>

Next ==
  \/ NoValidRoots
  \/ StartRun
  \/ EnumerationRaises
  \/ BreakOnLimit
  \/ NextRoot
  \/ CountWalkDone
  \/ CountWalkRaises
  \/ VisitOther
  \/ VisitDenied
  \/ VisitRaised
  \/ VisitParsed
  \/ CollectSummary
  \/ DropWithoutPdf
  \/ SortSummaries
  \/ WriteSummaries
  \/ WriteDocRegistry
  \/ WriteIndexes
  \/ NextRun

Spec == Init /\ [][Next]_vars

\* ------------------------------------------- update_doi_record on its own
\* the variables of main, at rest while a single function is called
main_vars == <<args, variant, raises, statErr, fault, run, pc, exit_code, input_dirs,
               ri, si, remaining, registry, url_registry, summaries, cur, persisted,
               out_files, outputs, reached, gated, log, contentRead, exhaustedIn>>

AtRest ==
  /\ args = [paths |-> <<"/nope">>, max_depth |-> 1, include_hidden |-> FALSE,
             only_with_pdfs |-> FALSE, paper_max |-> 1, skip_parsed |-> FALSE,
             output_write_mode |-> "append"]
  /\ variant = "plain"
  /\ raises = {} /\ statErr = {} /\ fault = NoneVal
  /\ run = 1
  /\ persisted = NoFile
  /\ out_files = NoOutFiles
  /\ outputs = << >>
  /\ Fresh

\* the arguments update_doi_record is called with
DoiArgs == {NoneVal, " ", "10.1000/xyz123", " 10.1000/xyz123 ", "10.2000/abc"}
SourceArgs == {"/R/A/a.bib", "/R/A/b.ris"}
TitleArgs == {NoneVal, "", "Foo", "Bar"}
AuthorsArgs == {NoneVal, "A; B"}
YearArgs == {NoneVal, "2020"}
VenueArgs == {NoneVal, "J"}

RecordFields == {"title", "authors", "year", "venue"}

\* the fields of the record for which the call brings a non-empty value that
\* differs from the non-empty value the record has
Clashes(records, doi, given) ==
  IF ~Truthy(doi) \/ StripStr(doi) \notin DOMAIN records THEN {}
  ELSE {fld \in RecordFields : /\ Truthy(given[fld])
                               /\ Truthy(records[StripStr(doi)][fld])
                               /\ given[fld] # records[StripStr(doi)][fld]}

InitDoi == AtRest /\ call = [op |-> "none", clashes |-> {}]

CallUpdateDoiRecord ==
  /\ \E doi \in DoiArgs, source \in SourceArgs, title \in TitleArgs,
        authors \in AuthorsArgs, year \in YearArgs, venue \in VenueArgs :
       /\ doi_records' = update_doi_record(doi_records, doi, source, title, authors,
                                           year, venue)
       /\ call' = [op |-> "update_doi_record",
                   clashes |-> Clashes(doi_records, doi,
                                       [title |-> title, authors |-> authors,
                                        year |-> year, venue |-> venue])]
  /\ UNCHANGED <<main_vars, link_dicts>>

NextDoi == CallUpdateDoiRecord

SpecDoi == InitDoi /\ [][NextDoi]_vars

\* --------------------------------- identifier extraction and folding alone
MaxFolds == 2   \* calls made in a row

\* the texts and the source files the functions are called with
IdTexts == <<Text_b_ris, Text_n_nbib, Text_d_txt, Text_e_docx, Text_p_pdf, Text_repeats>>
IdSources == {"/R/B/d.txt", "/R/B/e.docx"}

InitIds ==
  /\ AtRest
  /\ call = [op |-> "none", n |-> 0, text |-> 0, source |-> NoneVal, ids |-> NoIds,
             before |-> NoLinks, repeat |-> FALSE]

\* extract_identifiers_from_text(text) is called and its result kept
CallExtract ==
  /\ call.n < MaxFolds
  /\ \E i \in DOMAIN IdTexts :
       call' = [op |-> "extract", n |-> call.n + 1, text |-> i, source |-> NoneVal,
                ids |-> extract_identifiers_from_text(IdTexts[i]),
                before |-> link_dicts, repeat |-> FALSE]
  /\ UNCHANGED <<main_vars, link_dicts, doi_records>>

\* update_link_dicts_from_text(text, source) is called; repeat tells that the
\* call before it folded the same text from the same source
CallFold ==
  /\ call.n < MaxFolds
  /\ \E i \in DOMAIN IdTexts, source \in IdSources :
       /\ link_dicts' = update_link_dicts_from_text(link_dicts, IdTexts[i], source)
       /\ call' = [op |-> "fold", n |-> call.n + 1, text |-> i, source |-> source,
                   ids |-> extract_identifiers_from_text(IdTexts[i]),
                   before |-> link_dicts,
                   repeat |-> call.op = "fold" /\ call.text = i /\ call.source = source]
  /\ UNCHANGED <<main_vars, doi_records>>

NextIds == CallExtract \/ CallFold

SpecIds == InitIds /\ [][NextIds]_vars

\* ======================================================================
\* Properties
\* ======================================================================
\* the configured cap as main installs it
Cap == Max(0, args.paper_max)

\* how many entries of a log the metadata walk wrote with parsed = TRUE
NumParsed(lg) == Cardinality({i \in 1..Len(lg) : lg[i].parsed /\ lg[i].walk = "meta"})

\* a step inside one run of main (not the start of a process)
InRun == pc # "start" /\ pc' # "start"

\* the documents of a folder the metadata walk has a branch for
Eligible(folder) == {f \in FilesUnder(folder) : Branch(f) # "other"}

\* the files of a folder in walk order
WalkOrder(folder) ==
  Flatten([i \in 1..Len(os_walk(folder)) |-> os_walk(folder)[i].filenames])

\* the file counts of a folder, taken from the tree and not from a walk
HasSuffix(folder, exts) == Cardinality({f \in FilesUnder(folder) : Lower(Suffix(f)) \in exts})
CountsMatchTree(s) ==
  /\ s.num_files_total = Cardinality(FilesUnder(s.folder_path))
  /\ s.num_dirs_total = Cardinality(Descendants(s.folder_path))
  /\ s.num_pdfs = HasSuffix(s.folder_path, {".pdf"})
  /\ s.num_bibtex = HasSuffix(s.folder_path, {".bib"})
  /\ s.num_ris = HasSuffix(s.folder_path, {".ris"})
  /\ s.num_nbib = HasSuffix(s.folder_path, {".nbib"})
  /\ s.num_json = HasSuffix(s.folder_path, {".json"})
  /\ s.num_txt_md = HasSuffix(s.folder_path, {".txt", ".md"})

\* ---------------------------------------------------------------- C1
\* C1: within a run the remaining budget goes down by exactly one in a step
\* that registers a document parsed=TRUE from the metadata walk, and is left
\* as it is by every other step (gate denial, extraction that raises, the
\* counting walk, the file-name scan, the driver's own steps).
C1_BudgetPerParse ==
  [][InRun => remaining' = remaining - (NumParsed(log') - NumParsed(log))]_vars

\* a run in which a document was parsed, one was denied, one raised and the
\* counting walk registered a PDF, with the budget down by the parses only
C1_Witness ==
  /\ NumParsed(log) >= 1
  /\ remaining = Cap - NumParsed(log)
  /\ \E i \in 1..Len(log) : log[i].error = "skipped_by_limit"
  /\ \E i \in 1..Len(log) : log[i].error = ExcText
  /\ \E i \in 1..Len(log) : log[i].walk = "count"

\* ---------------------------------------------------------------- C2
\* the metadata walk of a folder holding exactly two eligible documents has
\* just ended, in a run whose cap is 1
C2_Case == pc = "collect" /\ args.paper_max = 1 /\ Cardinality(Eligible(cur.folder)) = 2

\* one document of the folder is registered parsed=TRUE, the other parsed=FALSE
\* with error skipped_by_limit
OneParsedOneSkipped(folder) ==
  \E a, b \in Eligible(folder) :
    /\ a # b
    /\ a \in DOMAIN registry /\ registry[a].parsed
    /\ b \in DOMAIN registry /\ ~registry[b].parsed
    /\ registry[b].error = "skipped_by_limit"

\* the first eligible document of the folder in walk order
FirstEligible(folder) ==
  LET w == SelectSeq(WalkOrder(folder), LAMBDA f : Branch(f) # "other") IN w[1]

\* that document alone gives doi, title, authors and year (the early exit)
FirstCompletes(folder) ==
  Strong(MergeBest(NoBest, Branch(FirstEligible(folder)),
                   Parsed(FirstEligible(folder), variant)))

\* C2 as claimed: with a cap of 1 and two eligible documents of any kind and
\* content, one ends parsed=TRUE and the other skipped_by_limit, and the file
\* counts are those of the tree.
C2_Original ==
  C2_Case => OneParsedOneSkipped(cur.folder) /\ CountsMatchTree(FolderSummary(cur))

\* C2 amended: the same, for two documents whose extraction does not raise and
\* of which the first one visited does not by itself complete doi, title,
\* authors and year.
C2_OneParsedOneSkipped ==
  (/\ C2_Case
   /\ Eligible(cur.folder) \cap raises = {}
   /\ ~FirstCompletes(cur.folder))
  => OneParsedOneSkipped(cur.folder) /\ CountsMatchTree(FolderSummary(cur))

C2_Witness ==
  /\ C2_Case
  /\ Eligible(cur.folder) \cap raises = {}
  /\ ~FirstCompletes(cur.folder)
  /\ OneParsedOneSkipped(cur.folder)
  /\ remaining = 0

\* ---------------------------------------------------------------- C3
\* every candidate folder under the valid roots, in the driver's order
AllCandidates ==
  Flatten([i \in 1..Len(input_dirs) |->
             iter_subdirs(input_dirs[i], args.max_depth, args.include_hidden)])

\* a summarized folder is kept: its counting walk does not raise and the
\* only-with-pdfs filter lets it through
Kept(folder) ==
  /\ FilesUnder(folder) \cap statErr = {}
  /\ ~(args.only_with_pdfs /\ HasSuffix(folder, {".pdf"}) < 1)

\* C3 as claimed: whatever the budget, every candidate folder gets a summary
\* with its file counts (in a run without filter and without stat failures).
C3_Original ==
  (pc = "done" /\ exit_code = <<0>> /\ ~args.only_with_pdfs /\ statErr = {})
  => \A c \in Range(AllCandidates) :
       \E i \in 1..Len(summaries) :
         summaries[i].folder_path = c /\ CountsMatchTree(summaries[i])

\* C3 amended: exhausting the budget also ends folder enumeration.  The folders
\* summarized are a prefix of the candidates, each reached with a budget > 0;
\* the driver stops short of a candidate only with a budget <= 0; each kept
\* folder of the prefix has exactly its summary, whose file counts are those of
\* the tree whatever the budget; a cap of 0 gives no summary at all.
C3_SummariesWhileBudget ==
  /\ \A i \in 1..Len(summaries) : CountsMatchTree(summaries[i])
  /\ \A i \in 1..Len(reached) : reached[i].remaining > 0
  /\ pc \in {"sort", "emit", "write", "indexes", "done"} =>
       /\ Len(reached) <= Len(AllCandidates)
       /\ \A i \in 1..Len(reached) : reached[i].folder = AllCandidates[i]
       /\ Len(reached) < Len(AllCandidates) => remaining <= 0
       /\ \A d \in Dirs :
            Cardinality({i \in 1..Len(summaries) : summaries[i].folder_path = d})
            = Cardinality({i \in 1..Len(reached) : reached[i].folder = d /\ Kept(d)})
       /\ Cap = 0 => summaries = << >>

\* a finished run that summarized some folder and left a later candidate out
\* because the budget was used up
C3_Witness ==
  /\ pc = "done"
  /\ Len(summaries) >= 1
  /\ Len(reached) < Len(AllCandidates)
  /\ remaining = 0

\* ---------------------------------------------------------------- C4
\* how often a summary occurs in a list
Occurrences(xs, x) == Cardinality({i \in 1..Len(xs) : xs[i] = x})

\* C4 as claimed: once the budget has dropped to 0, no further file and no
\* further folder is processed.
C4_Original ==
  [][(exhaustedIn # NoneVal /\ InRun)
     => gated' = gated /\ log' = log /\ reached' = reached]_vars

\* C4 amended: once the budget has dropped to 0 the driver enters no further
\* folder and nothing more is parsed, but the file loop of the folder being
\* walked goes on: every file it still reaches is denied by the gate and
\* registered parsed=FALSE.  Every summary collected stays in the list through
\* the sort, and the folder in which the budget ran out has its summary in the
\* emitted list unless the only-with-pdfs filter dropped it.
C4_StopsFoldersNotFiles ==
  [][InRun =>
       /\ exhaustedIn # NoneVal =>
            /\ reached' = reached
            /\ remaining' = remaining
            /\ NumParsed(log') = NumParsed(log)
            /\ \A i \in (Len(gated) + 1)..Len(gated') : ~gated'[i].allowed
            /\ \A i \in (Len(log) + 1)..Len(log') : ~log'[i].parsed
       /\ \A i \in 1..Len(summaries) :
            Occurrences(summaries', summaries[i]) >= Occurrences(summaries, summaries[i])
       /\ (pc' = "done" /\ exhaustedIn' # NoneVal /\ Kept(exhaustedIn'))
            => \E i \in 1..Len(summaries') : summaries'[i].folder_path = exhaustedIn'
    ]_vars

\* the budget ran out in a folder, a later file of that folder was denied, and
\* the run ended with that folder's summary emitted
C4_Witness ==
  /\ pc = "done"
  /\ exhaustedIn # NoneVal
  /\ \E i \in 1..Len(summaries) : summaries[i].folder_path = exhaustedIn
  /\ \E i \in 1..Len(log) :
       log[i].folder_path = exhaustedIn /\ log[i].error = "skipped_by_limit"
  /\ Len(reached) < Len(AllCandidates)

\* ---------------------------------------------------------------- C5
\* C5 as claimed: the number of documents whose contents were loaded in a run
\* never exceeds the cap.
C5_Original == Cardinality(contentRead) <= Cap

\* ---------------------------------------------------------------- C6
PersistedParsed(f) ==
  persisted.exists /\ f \in DOMAIN persisted.data /\ persisted.data[f].parsed

\* C6 as claimed: in a later run with the skip flag (append mode), a document
\* the persisted registry marks parsed=TRUE is denied skipped_already_parsed
\* and not parsed again, and the registry file still marks it parsed=TRUE after
\* the run's merge.
C6_Original ==
  [][(run > 1 /\ args.skip_parsed /\ args.output_write_mode = "append") =>
       /\ (pc = "walk" /\ pc' \in {"walk", "collect"} /\ Branch(CurFile) # "other"
           /\ PersistedParsed(CurFile))
            => /\ Len(gated') = Len(gated) + 1
               /\ gated'[Len(gated')].reason = "skipped_already_parsed"
               /\ NumParsed(log') = NumParsed(log)
       /\ pc = "write" =>
            \A f \in Files : PersistedParsed(f) => persisted'.data[f].parsed
    ]_vars

\* ---------------------------------------------------------------- C7
GateCount(f) == Cardinality({i \in 1..Len(gated) : gated[i].path = f})
\* C7 as claimed: no file path goes through the gate more than once in a run.
C7_Original == \A f \in Files : GateCount(f) <= 1

\* ---------------------------------------------------------------- C8
\* C8 as claimed: all entries written for a path in one run carry the same
\* kind and the same folder_path.
C8_Original ==
  \A i, j \in 1..Len(log) :
    log[i].path = log[j].path
      => log[i].kind = log[j].kind /\ log[i].folder_path = log[j].folder_path

\* ---------------------------------------------------------------- C9
\* C9: under any sequence of update_doi_record calls, a record that exists
\* stays, each of its fields title, authors, year and venue keeps its value
\* once that value is non-empty, so that a call changes a field only while it
\* is empty, and the record's source set never loses a path.
C9_FirstValueWins ==
  [][\A d \in DOMAIN doi_records :
       /\ d \in DOMAIN doi_records'
       /\ \A fld \in RecordFields :
            Truthy(doi_records[d][fld]) => doi_records'[d][fld] = doi_records[d][fld]
       /\ doi_records[d].sources \subseteq doi_records'[d].sources]_vars

\* a call has just offered another non-empty title for a record that had one,
\* from a second source file
C9_Witness ==
  /\ call.op = "update_doi_record"
  /\ "title" \in call.clashes
  /\ \E d \in DOMAIN doi_records : Cardinality(doi_records[d].sources) = 2

\* ---------------------------------------------------------------- C10
NoDup(seq) == \A i, j \in DOMAIN seq : i # j => seq[i] # seq[j]

\* the matches of a pattern in the text before duplicates are dropped
RawCount(text, re) == Len(FindIter(text, 1, re))

\* C10: extract_identifiers_from_text run again on the same text returns the
\* same four sequences, none of which holds an identifier twice; after a fold
\* every identifier of the text has the source file in its path set; and
\* folding the same text from the same source a second time leaves the four
\* indexes exactly as the first fold left them.
C10_DeterministicIdempotent ==
  /\ call.op \in {"extract", "fold"} =>
       /\ call.ids = extract_identifiers_from_text(IdTexts[call.text])
       /\ NoDup(call.ids.urls) /\ NoDup(call.ids.dois)
       /\ NoDup(call.ids.pmids) /\ NoDup(call.ids.pmcs)
  /\ call.op = "fold" =>
       /\ \A u \in Range(call.ids.urls) : call.source \in link_dicts.url[u]
       /\ \A d \in Range(call.ids.dois) : call.source \in link_dicts.doi[d]
       /\ \A p \in Range(call.ids.pmids) : call.source \in link_dicts.pmid[p]
       /\ \A c \in Range(call.ids.pmcs) : call.source \in link_dicts.pmc[c]
  /\ (call.op = "fold" /\ call.repeat) => link_dicts = call.before

\* a text that names a URL, a PMID and a PMC id more than once has been folded
\* twice in a row from the same file
C10_Witness ==
  /\ call.op = "fold" /\ call.repeat
  /\ RawCount(IdTexts[call.text], "URL_REGEX") > Len(call.ids.urls)
  /\ RawCount(IdTexts[call.text], "PMCID_REGEX") > Len(call.ids.pmcs)
  /\ call.ids.pmids # << >>
  /\ link_dicts.url # NoDict

\* the character sequences extract_identifiers_from_text takes for DOIs: the
\* path after doi.org/ of each URL and the matches of DOI_REGEX
DoiGroups(text) ==
  ({Search(RStrip(Strip(m0), {")", ".", ",", ";", "]"}), "doi.org") :
      m0 \in Range(FindIter(text, 1, "URL_REGEX"))} \ {<< >>})
  \cup Range(FindIter(text, 1, "DOI_REGEX"))

\* the whole of g matches 10\.\d{4,9}/[^\s]+
IsDoi(g) ==
  /\ MatchLit(g, 1, <<{"1"}, {"0"}, {"."}>>)
  /\ RunLen(g, 4, Only(Digits), Len(g)) \in 4..9
  /\ MatchLit(g, 4 + RunLen(g, 4, Only(Digits), Len(g)), <<{"/"}>>)
  /\ Len(g) >= 5 + RunLen(g, 4, Only(Digits), Len(g))
  /\ \A k \in 1..Len(g) : g[k] \notin Spaces

\* C11: every string of the DOI sequence extract_identifiers_from_text
\* returns matches 10.<4-9 digits>/<non-whitespace characters>, the DOIs taken
\* from the path after doi.org/ of a URL included.
C11_Original ==
  call.op \in {"extract", "fold"} =>
    \A d \in Range(call.ids.dois) :
      \E g \in DoiGroups(IdTexts[call.text]) : Str(g) = d /\ IsDoi(g)

\* ------------------------------------------------ the counting loop alone
MaxCounted == 2   \* files counted in a row

\* what stat() does for the file: it succeeds, it raises FileNotFoundError
\* (the file vanished after the listing) or it raises PermissionError
StatOutcomes == {"ok", "gone", "error"}

InitCount ==
  /\ AtRest
  /\ call = [op |-> "none", n |-> 0, f |-> NoneVal, outcome |-> NoneVal,
             before |-> ZeroCounts,
             st |-> [counts |-> ZeroCounts, registry |-> EmptyDict, log |-> << >>,
                     raised |-> FALSE]]

\* one pass of the loop "for fname in filenames" of summarize_folder
CallCountFile ==
  /\ call.n < MaxCounted
  /\ ~call.st.raised
  /\ \E f \in Files, outcome \in StatOutcomes :
       call' = [op |-> "count", n |-> call.n + 1, f |-> f, outcome |-> outcome,
                before |-> call.st.counts,
                st |-> CountFile(call.st, f, "/R",
                                 IF outcome = "error" THEN {f} ELSE {},
                                 IF outcome = "gone" THEN {f} ELSE {})]
  /\ UNCHANGED <<main_vars, mem>>

NextCount == CallCountFile

SpecCount == InitCount /\ [][NextCount]_vars

\* the sum of the per-kind counters
KindSum(c) ==
  c.num_pdfs + c.num_bibtex + c.num_ris + c.num_nbib + c.num_json + c.num_txt_md

\* a file name one of the branches of the counting loop takes
Recognized(f) ==
  Lower(Suffix(f)) \in {".pdf", ".bib", ".ris", ".nbib", ".json", ".txt", ".md"}

\* C12: num_files_total is at least the sum of the six kind counters; every
\* file counted adds one to num_files_total and to at most one kind counter,
\* and a file with an unrecognized suffix or one that vanished before stat
\* adds to num_files_total only.
C12_TotalCoversKinds ==
  /\ call.st.counts.num_files_total >= KindSum(call.st.counts)
  /\ call.op = "count" =>
       /\ call.st.counts.num_files_total = call.before.num_files_total + 1
       /\ KindSum(call.st.counts) - KindSum(call.before) \in {0, 1}
       /\ (call.outcome = "gone" \/ ~Recognized(call.f)) =>
            /\ KindSum(call.st.counts) = KindSum(call.before)
            /\ \A k \in {"num_pdfs", "num_bibtex", "num_ris", "num_nbib", "num_json",
                          "num_txt_md"} : call.st.counts[k] = call.before[k]
       /\ (call.outcome = "ok" /\ Recognized(call.f)) =>
            KindSum(call.st.counts) = KindSum(call.before) + 1

\* two files counted: one of a recognized kind, and one of a recognized kind
\* that vanished before stat, so that the total exceeds the sum of the kinds
C12_Witness ==
  /\ call.n = 2 /\ call.outcome = "gone" /\ Recognized(call.f)
  /\ call.st.counts.num_files_total = 2
  /\ KindSum(call.st.counts) = 1

\* ------------------------------------------------ _dump_dict_set on its own
MaxDumps == 2   \* calls made in a row, each on the file the one before left

\* the in-memory indexes and the files the function is called with
DumpDicts ==
  {NoDict,
   [k \in {"10.1/a"} |-> {"/p2"}],
   [k \in {"10.1/a", "10.2/b"} |-> IF k = "10.1/a" THEN {"/R/A/b.ris", "/p2"} ELSE {"/p1"}],
   [k \in {"10.2/b"} |-> {"/R/A/a.bib"}]}
DumpFiles ==
  {Absent, NotJson, JsonArray,
   JsonObject(NoDict),
   JsonObject([k \in {"10.1/a"} |-> JsonList(<<"/p1">>)]),
   JsonObject([k \in {"10.1/a", "10.3/c"} |->
                 IF k = "10.1/a" THEN JsonList(<<"/p2", "/p1", "/p1">>)
                 ELSE JsonList(<<"/R/B/d.txt">>)]),
   JsonObject([k \in {"10.1/a", "10.3/c"} |->
                 IF k = "10.1/a" THEN JsonNull ELSE JsonList(<<"/p1">>)])}

InitDump ==
  /\ AtRest
  /\ call = [op |-> "none", n |-> 0, d |-> NoDict, path_str |-> NoneVal, before |-> Absent,
             mode |-> NoneVal, writable |-> TRUE,
             out |-> [file |-> Absent, logged |-> FALSE]]

\* the first call finds any of the files, a later one the file left behind
CallDumpDictSet ==
  /\ call.n < MaxDumps
  /\ \E d \in DumpDicts, path_str \in {NoneVal, "doi_dict.json"},
        mode \in {"append", "overwrite"}, writable \in BOOLEAN,
        file \in IF call.n = 0 THEN DumpFiles ELSE {call.out.file} :
       call' = [op |-> "dump", n |-> call.n + 1, d |-> d, path_str |-> path_str,
                before |-> file, mode |-> mode, writable |-> writable,
                out |-> _dump_dict_set(d, path_str, file, mode, writable)]
  /\ UNCHANGED <<main_vars, mem>>

NextDump == CallDumpDictSet

SpecDump == InitDump /\ [][NextDump]_vars

\* the paths a JSON object of lists holds for a key, none if the key is absent
PathsOf(data, k) == IF k \in DOMAIN data THEN Range(data[k].items) ELSE {}

\* the list is in str order and holds no path twice
SortedNoDup(seq) == seq = SortedList(Range(seq))

\* the persisted file is a JSON object whose values are all lists
ObjectOfLists(file) ==
  file.exists /\ file.json = "object" /\ \A k \in DOMAIN file.data : file.data[k].type = "list"

\* C13: an index written in append mode over a persisted JSON object of
\* lists holds exactly the identifiers of the persisted and of the new index,
\* each with the sorted duplicate-free union of its persisted and new paths.
C13_AppendUnionsPaths ==
  (call.op = "dump" /\ Truthy(call.path_str) /\ call.mode = "append" /\ call.writable
   /\ ObjectOfLists(call.before))
  => /\ ObjectOfLists(call.out.file)
     /\ DOMAIN call.out.file.data = DOMAIN call.d \cup DOMAIN call.before.data
     /\ \A k \in DOMAIN call.out.file.data :
          /\ Range(call.out.file.data[k].items) =
               (IF k \in DOMAIN call.d THEN call.d[k] ELSE {}) \cup PathsOf(call.before.data, k)
          /\ SortedNoDup(call.out.file.data[k].items)

\* the spec's example and more: the persisted list of an identifier was
\* unsorted with a path twice, the new index brought a path of its own for
\* it and an identifier of its own, and the file another identifier
C13_Witness ==
  /\ call.op = "dump" /\ Truthy(call.path_str) /\ call.mode = "append" /\ call.writable
  /\ ObjectOfLists(call.before)
  /\ "10.1/a" \in DOMAIN call.d \cap DOMAIN call.before.data
  /\ ~SortedNoDup(call.before.data["10.1/a"].items)
  /\ call.out.file.data["10.1/a"].items = <<"/R/A/b.ris", "/p1", "/p2">>
  /\ "10.2/b" \in DOMAIN call.out.file.data \ DOMAIN call.before.data
  /\ "10.3/c" \in DOMAIN call.out.file.data \ DOMAIN call.d

\* ------------------------------------- the DOI records file on its own
MaxRecordWrites == 2   \* writes made in a row, each on the file the one before left

\* the in-memory records and the files the write finds
RecordSets ==
  {NoRecords,
   [k \in {"10.1/a"} |-> [title |-> NoneVal, authors |-> "", year |-> "2021",
                            venue |-> NoneVal, sources |-> {"/p2", "/R/A/a.bib"}]],
   [k \in {"10.1/a", "10.2/b"} |->
      IF k = "10.1/a"
      THEN [title |-> "New", authors |-> NoneVal, year |-> NoneVal, venue |-> "V",
            sources |-> {"/p1"}]
      ELSE [NoRecord EXCEPT !.sources = {"/R/A/b.ris"}]]}
RecordFiles ==
  {Absent, NotJson, JsonArray,
   JsonObject(NoDict),
   JsonObject([k \in {"10.1/a", "10.3/c"} |->
                 IF k = "10.1/a"
                 THEN [title |-> "Old", authors |-> "A", year |-> NoneVal, venue |-> "",
                       sources |-> JsonList(<<"/p2", "/p1">>)]
                 ELSE [title |-> "C", authors |-> NoneVal, year |-> "1999", venue |-> NoneVal,
                       sources |-> JsonList(<<"/p2", "/p1", "/p1">>)]]),
   JsonObject([k \in {"10.1/a"} |->
                 [title |-> NoneVal, authors |-> "A", year |-> "2000", venue |-> "W",
                  sources |-> JsonNull]])}

InitRecords ==
  /\ AtRest
  /\ call = [op |-> "none", n |-> 0, records |-> NoRecords, output_doi_dict |-> NoneVal,
             before |-> Absent, mode |-> NoneVal, writable |-> TRUE,
             out |-> [file |-> Absent, logged |-> FALSE]]

\* the first write finds any of the files, a later one the file left behind
CallWriteDoiRecords ==
  /\ call.n < MaxRecordWrites
  /\ \E records \in RecordSets, output_doi_dict \in {NoneVal, "doi_dict.json"},
        mode \in {"append", "overwrite"}, writable \in BOOLEAN,
        file \in IF call.n = 0 THEN RecordFiles ELSE {call.out.file} :
       call' = [op |-> "records", n |-> call.n + 1, records |-> records,
                output_doi_dict |-> output_doi_dict, before |-> file, mode |-> mode,
                writable |-> writable,
                out |-> WriteDoiRecords(records, output_doi_dict, file, mode, writable)]
  /\ UNCHANGED <<main_vars, mem>>

NextRecords == CallWriteDoiRecords

SpecRecords == InitRecords /\ [][NextRecords]_vars

\* an append-mode write of the records over a persisted JSON object succeeded
MergedRecords ==
  /\ call.op = "records" /\ Truthy(call.output_doi_dict) /\ call.mode = "append"
  /\ call.writable /\ call.before.exists /\ call.before.json = "object"

\* C14: the DOI records written in append mode are merged per DOI: a
\* persisted non-empty title, authors, year or venue is kept when the new
\* record's value is empty, the sources are the sorted union of the persisted
\* and the new ones, and a DOI only the persisted file holds is carried over
\* as it is.
C14_AppendMergesRecords ==
  MergedRecords =>
    /\ call.out.file.exists /\ call.out.file.json = "object"
    /\ DOMAIN call.out.file.data = DOMAIN call.records \cup DOMAIN call.before.data
    /\ \A k \in DOMAIN call.before.data \ DOMAIN call.records :
         call.out.file.data[k] = call.before.data[k]
    /\ \A k \in DOMAIN call.before.data \cap DOMAIN call.records :
         /\ \A fld \in RecordFields :
              (Truthy(call.before.data[k][fld]) /\ ~Truthy(call.records[k][fld]))
              => call.out.file.data[k][fld] = call.before.data[k][fld]
         /\ call.out.file.data[k].sources =
              JsonList(SortedList(ListItems(call.before.data[k].sources)
                                  \cup call.records[k].sources))

\* the persisted record of a DOI had authors and the new one none, both had
\* sources of their own, and the file held a DOI the run did not see
C14_Witness ==
  /\ MergedRecords
  /\ "10.1/a" \in DOMAIN call.records \cap DOMAIN call.before.data
  /\ call.before.data["10.1/a"].authors = "A" /\ ~Truthy(call.records["10.1/a"].authors)
  /\ call.out.file.data["10.1/a"].authors = "A"
  /\ call.out.file.data["10.1/a"].sources = JsonList(<<"/R/A/a.bib", "/p1", "/p2">>)
  /\ "10.3/c" \in DOMAIN call.out.file.data \ DOMAIN call.records

\* ------------------------------------------------- main's output phase
\* the output files main tried to write in the run that has just ended
TriedNow == SelectSeq(outputs, LAMBDA t : t.run = run)

\* C15: once a run has come to write its outputs, every configured artifact
\* (summary CSV, summary JSON, document registry, the four identifier indexes,
\* the DOI records) is attempted whichever one fails, and the failure of one
\* is caught and logged.
C15_Original ==
  (pc \in {"done", "crashed"} /\ TriedNow # << >>)
  => /\ {t.artifact : t \in Range(TriedNow)} = Range(OutputFiles)
     /\ \A t \in Range(TriedNow) : t.failed => t.logged

\* C16: a run ends with a non-zero status exactly when no configured root is
\* an existing directory; a run with a valid root ends with status 0 whatever
\* fails, its roots being the valid ones of the command line.
C16_Original ==
  pc \in {"done", "exit", "crashed"}
  => /\ exit_code # <<0>> <=> ValidRoots(args.paths) = << >>
     /\ ValidRoots(args.paths) # << >> => input_dirs = ValidRoots(args.paths)

\* ------------------------------------------- a folder whose summary fails
\* the files os.walk(folder) comes to
RECURSIVE WalkFiles(_)
WalkFiles(folder) ==
  Range(DirFiles(folder)) \cup UNION {WalkFiles(d) : d \in Range(ChildDirs(folder))}

\* the folders on which summarize_folder raises: the counting loop stats
\* every file of the walk and lets any exception but FileNotFoundError go
RaisingFolders ==
  IF statErr = {} THEN {} ELSE {d \in Dirs : WalkFiles(d) \cap statErr # {}}

\* the folder has no entry in the summary list and none in the URL registry
Omitted(folder) ==
  /\ folder \notin DOMAIN url_registry
  /\ \A i \in 1..Len(summaries) : summaries[i].folder_path # folder

\* no folder of the set that was entered has an entry
AllOmitted(folders) ==
  \A i \in 1..Len(reached) : reached[i].folder \in folders => Omitted(reached[i].folder)

\* the folder entered last is of the set
LastIn(folders) == reached # << >> /\ reached[Len(reached)].folder \in folders

\* C17: the step on which summarize_folder raises leaves the summary list
\* and the folder URL registry as they were and takes the driver to the next
\* candidate folder, and at no later time of the run has a folder on which it
\* raised an entry in either.
C17_RaisingFolderOmitted ==
  [][/\ (Len(reached') = Len(reached) + 1 /\ LastIn(RaisingFolders)') =>
          /\ summaries' = summaries /\ url_registry' = url_registry
          /\ si' = si + 1 /\ ri' = ri /\ pc' = "loop"
     /\ AllOmitted(RaisingFolders)'
    ]_vars

\* a run has ended in which /R/B, whose x.dat may not be stat-ed, was entered
\* after /R/A had been summarized and before /R/A/S was: the summaries are
\* those of the other two
C17_Witness ==
  /\ pc = "done" /\ "/R/B" \in RaisingFolders /\ "/R/A" \notin RaisingFolders
  /\ Len(reached) = 3 /\ reached[2].folder = "/R/B"
  /\ Len(summaries) = 2 /\ Omitted("/R/B")

\* --------------------------------------------- the folder's best metadata
\* the documents the metadata walk of the folder has parsed, in walk order
ParsedDocs(folder) ==
  SelectSeq(log, LAMBDA e : e.folder_path = folder /\ e.walk = "meta" /\ e.parsed)

\* the first non-empty value of the field among the documents, None if none
RECURSIVE FirstFound(_, _)
FirstFound(docs, fld) ==
  IF docs = << >> THEN NoneVal
  ELSE IF Truthy(Parsed(Head(docs).path, variant)[fld])
       THEN Parsed(Head(docs).path, variant)[fld]
       ELSE FirstFound(Tail(docs), fld)

\* the folder main is at has been entered once in this run
EnteredOnce == Cardinality({i \in 1..Len(reached) : reached[i].folder = cur.folder}) = 1

\* C18: when the metadata walk of a folder is over, each of its best doi,
\* title, authors, year and venue is the first non-empty value of the field
\* among the documents parsed in walk order, the venue of a BibTeX document
\* included.
C18_Original ==
  (pc = "collect" /\ EnteredOnce)
  => \A fld \in {"doi", "title", "authors", "year", "venue"} :
       cur.best[fld] = FirstFound(ParsedDocs(cur.folder), fld)

\* ------------------------------------------------ the parse gate on its own
MaxGateCalls == 3   \* calls made in a row on one registry and one parse control

GateFiles == {"/R/A/a.bib", "/R/A/b.ris"}
GateBudgets == -1..2

\* a parse control with either flag and any of the budgets, an empty registry
InitGate ==
  /\ AtRest
  /\ \E skip \in BOOLEAN, budget \in GateBudgets :
       call = [op |-> "none", n |-> 0, path |-> NoneVal, skip |-> skip,
               remaining |-> budget, registry |-> EmptyDict,
               out |-> [allowed |-> TRUE, reason |-> NoneVal]]

\* _register_document_status(path, folder, kind, parsed, error)
CallRegister ==
  /\ call.n < MaxGateCalls
  /\ \E f \in GateFiles, parsed \in BOOLEAN :
       call' = [call EXCEPT
                  !.op = "register", !.n = @ + 1, !.path = f,
                  !.registry = _register_document_status(
                                 @, f, "/R/A", SuccessKind(f), parsed,
                                 IF parsed THEN NoneVal ELSE "skipped_by_limit", {})]
  /\ UNCHANGED <<main_vars, mem>>

\* _check_parse_gate(path, parse_control): it returns its pair and assigns to
\* nothing
CallCheckParseGate ==
  /\ call.n < MaxGateCalls
  /\ \E f \in GateFiles :
       call' = [call EXCEPT
                  !.op = "gate", !.n = @ + 1, !.path = f,
                  !.out = _check_parse_gate(f, call.skip, call.remaining, call.registry)]
  /\ UNCHANGED <<main_vars, mem>>

NextGate == CallRegister \/ CallCheckParseGate

SpecGate == InitGate /\ [][NextGate]_vars

\* the registry marks the path as parsed
MarkedParsed(reg, path) == path \in DOMAIN reg /\ reg[path].parsed

\* C19: the gate denies with skipped_already_parsed when the skip flag is
\* set and the registry marks the path parsed, whatever the budget; otherwise
\* it denies with skipped_by_limit when the budget is <= 0; otherwise it
\* allows; and it leaves the registry and the budget as they were.
C19_GateOrder ==
  [][call'.op = "gate" =>
       /\ call'.out =
            (IF call.skip /\ MarkedParsed(call.registry, call'.path)
             THEN [allowed |-> FALSE, reason |-> "skipped_already_parsed"]
             ELSE IF call.remaining <= 0
             THEN [allowed |-> FALSE, reason |-> "skipped_by_limit"]
             ELSE [allowed |-> TRUE, reason |-> NoneVal])
       /\ call'.registry = call.registry
       /\ call'.remaining = call.remaining
       /\ call'.skip = call.skip
    ]_vars

\* the gate was asked about a path marked parsed, with the skip flag set and
\* no budget left, and answered skipped_already_parsed
C19_Witness ==
  /\ call.op = "gate" /\ call.skip /\ call.remaining <= 0
  /\ MarkedParsed(call.registry, call.path)
  /\ call.out = [allowed |-> FALSE, reason |-> "skipped_already_parsed"]

\* ------------------------------------------------------ a denied document
\* the gate has just denied the document: the last gate decision is new and
\* is a denial
JustDenied == Len(gated') = Len(gated) + 1 /\ ~gated'[Len(gated')].allowed

\* C20: on the step that visits a document the gate denies, the registry
\* entry of its path becomes parsed=false with the denial reason as error and
\* the file's size, every other registry entry stays, and the four identifier
\* indexes, the DOI records and the remaining budget are as before.
C20_DenialOnlyRegisters ==
  [][JustDenied =>
       LET denied == gated'[Len(gated')]
       IN /\ DOMAIN registry' = DOMAIN registry \cup {denied.path}
          /\ \A k \in DOMAIN registry : k # denied.path => registry'[k] = registry[k]
          /\ registry'[denied.path].parsed = FALSE
          /\ registry'[denied.path].error = denied.reason
          /\ registry'[denied.path].size_bytes = SizeOf(denied.path)
          /\ link_dicts' = link_dicts
          /\ doi_records' = doi_records
          /\ remaining' = remaining
    ]_vars

\* b.ris was denied for the limit after a.bib had been parsed into the
\* indexes and the DOI records
C20_Witness ==
  /\ gated # << >> /\ gated[Len(gated)] = [path |-> "/R/A/b.ris", allowed |-> FALSE,
                                            reason |-> "skipped_by_limit"]
  /\ registry["/R/A/b.ris"].parsed = FALSE
  /\ registry["/R/A/b.ris"].error = "skipped_by_limit"
  /\ "/R/A/a.bib" \in DOMAIN registry /\ registry["/R/A/a.bib"].parsed
  /\ link_dicts # NoLinks /\ doi_records # NoRecords
  /\ remaining = 0

\* ------------------------------------------------- the gate and the reads
\* C21: the gate is asked before a document's content is read, whatever its
\* kind: the step that visits a document the gate denies reads no content, so
\* the documents whose contents were loaded are as before.
C21_Original == [][JustDenied => contentRead' = contentRead]_vars

\* ---------------------------------------------------------- the early exit
\* C22: once the folder's doi, title, authors and year are all non-empty, the
\* metadata walk visits no further file of the folder, in the directory it is
\* in or in one it reaches later: no step of the walk then asks the gate,
\* writes a registry entry or reads a document.
C22_Original ==
  [][(pc = "walk" /\ Strong(cur.best))
     => /\ gated' = gated /\ log' = log /\ registry' = registry
        /\ contentRead' = contentRead /\ remaining' = remaining
    ]_vars

\* ------------------------------------------------- the budget's accounting
\* how many registry writes of the run so far were made with parsed = TRUE
ParsedRegistrations == Cardinality({i \in 1..Len(log) : log[i].parsed})

\* main has installed the parse control of the run
ControlSet == pc \notin {"start", "exit"}

\* C23: at every moment of a run the remaining budget is >= 0 and the cap
\* minus the remaining budget is the number of parsed=TRUE registrations made
\* so far, which therefore never exceeds the cap.
C23_BudgetAccounts ==
  ControlSet =>
    /\ remaining >= 0
    /\ Cap - remaining = ParsedRegistrations
    /\ ParsedRegistrations <= Cap

\* a run with a cap of at least 2 has spent it all, and a later document was
\* denied for the limit
C23_Witness ==
  /\ ControlSet /\ Cap >= 2 /\ remaining = 0 /\ ParsedRegistrations = Cap
  /\ \E i \in 1..Len(log) : log[i].error = "skipped_by_limit"

\* ------------------------------------------------ the skip flag in one run
\* how many times the run has registered the file parsed = TRUE
TimesParsed(f) == Cardinality({i \in 1..Len(log) : log[i].path = f /\ log[i].parsed})

\* no document has been parsed twice in the run
ParsedAtMostOnce == \A f \in Files : TimesParsed(f) <= 1

RecordedFrom(d, p) == d \in DOMAIN doi_records /\ p \in doi_records[d].sources

\* C25: the DOI index and the DOI records agree after any documents were
\* parsed: every file the index holds for a DOI is a source of that DOI's
\* record.
C25_IndexWithinRecords ==
  \A d \in DOMAIN link_dicts.doi : \A p \in link_dicts.doi[d] : RecordedFrom(d, p)

\* documents of several kinds were parsed: a DOI that no structured field
\* gave has a record without metadata, and some DOI has two source files
C25_Witness ==
  /\ C25_IndexWithinRecords
  /\ \E d \in DOMAIN link_dicts.doi :
       /\ doi_records[d].title = NoneVal /\ doi_records[d].year = NoneVal
       /\ link_dicts.doi[d] # {}
  /\ \E d \in DOMAIN link_dicts.doi : Cardinality(link_dicts.doi[d]) >= 2
  /\ Cardinality({log[i].kind : i \in {j \in 1..Len(log) : log[j].parsed}}) >= 3

====
